---------------------------- MODULE Spec2Model ----------------------------
(***************************************************************************)
(* Model of the exam platform: the attempt lifecycle (enroll, start_test,  *)
(* end_test), submit_answer with its scoring and its running aggregates,   *)
(* and conclude_exam, over the documents of the test_attempts,             *)
(* submissions and exams collections.                                      *)
(*                                                                         *)
(* Time is counted in minutes.  A score returned by _score_submission is   *)
(* kept in hundredths (the code divides by 100 in floating point), and a   *)
(* percentile in ten-thousandths (the code rounds to 4 decimal places).    *)
(***************************************************************************)
EXTENDS Integers, Sequences, FiniteSets, TLC

\* ------------------------------------------------------------------ bounds
MaxTime == 3
MaxAttempts == 2
MaxCalls == 2
MaxConcludeAttempts == 3
MaxRuns == 2
MaxWorkers == 2
MaxDeliveries == 2
ExamStart == 1
ExamLength == 1
DurationMinutes == 1

\* ----------------------------------------------------- values of the fields
None == -1
NoRank == 0
positive_score == 4
negative_score == 1

NOT_STARTED == "NOT_STARTED"
IN_PROGRESS == "IN_PROGRESS"
COMPLETED == "COMPLETED"
CANCELLED == "CANCELLED"
TestStatus == {NOT_STARTED, IN_PROGRESS, COMPLETED, CANCELLED}

COMPETITIVE == "COMPETITIVE"
PRACTICE == "PRACTICE"

SINGLE_CORRECT == "single_correct"
MULTIPLE_CORRECT == "multiple_correct"

UPCOMING == "upcoming"
ONGOING == "ongoing"
EXAM_COMPLETED == "completed"

NoExam == "no_exam"
NoPaper == "no_paper"

Users == {"u1", "u2"}
ExamIds == {"e1"}
PaperIds == {"p1"}
QuestionIds == {"q1", "q2"}

\* ------------------------------------------------ the authored documents
\* A question with its options, as seed.py builds them: a single-correct
\* question has one correct option of weight 100, a multiple-correct one
\* shares 100 among its correct options.
Question(q) ==
    IF q = "q1"
    THEN [code |-> "q1", type |-> SINGLE_CORRECT, subject_code |-> "maths",
          question_options |->
            << [code |-> "o1", correct |-> TRUE, weight |-> 100],
               [code |-> "o2", correct |-> FALSE, weight |-> 0] >>]
    ELSE [code |-> "q2", type |-> MULTIPLE_CORRECT, subject_code |-> "science",
          question_options |->
            << [code |-> "o3", correct |-> TRUE, weight |-> 50],
               [code |-> "o4", correct |-> TRUE, weight |-> 50],
               [code |-> "o5", correct |-> FALSE, weight |-> 0] >>]

PaperQuestion(q) ==
    [question |-> q, mandatory |-> FALSE,
     positive_score |-> positive_score, negative_score |-> negative_score]

\* The paper: its question entries, its cached max_score and subject maxima
\* (seed.py computes both from the entries), and its duration.
\* Paper p2 holds q1 alone, as a mandatory entry; every other paper holds
\* both questions.  Paper p3 is p1 with a max_score cached before q2 was
\* added to it.
Paper(p) ==
    IF p = "p3"
    THEN [code |-> p,
          paper_questions |-> << PaperQuestion("q1"), PaperQuestion("q2") >>,
          max_score |-> positive_score,
          subject_max_scores |->
             << [subject_code |-> "maths", max_score |-> positive_score],
                [subject_code |-> "science", max_score |-> positive_score] >>,
          duration_minutes |-> DurationMinutes]
    ELSE IF p = "p2"
    THEN [code |-> p,
          paper_questions |-> << [PaperQuestion("q1") EXCEPT !.mandatory = TRUE] >>,
          max_score |-> positive_score,
          subject_max_scores |->
             << [subject_code |-> "maths", max_score |-> positive_score] >>,
          duration_minutes |-> DurationMinutes]
    ELSE [code |-> p,
          paper_questions |-> << PaperQuestion("q1"), PaperQuestion("q2") >>,
          max_score |-> 2 * positive_score,
          subject_max_scores |->
             << [subject_code |-> "maths", max_score |-> positive_score],
                [subject_code |-> "science", max_score |-> positive_score] >>,
          duration_minutes |-> DurationMinutes]

\* The option sets a client sends in this model: the correct option of q1,
\* its wrong option, and one of the two correct options of q2.  An option of
\* one question is an unknown code for the other.
Choices == { {"o1"}, {"o2"}, {"o3"} }

\* The papers in the papers collection: those the requests of the whole
\* lifecycle name, and p2 and p3.
Papers == PaperIds \cup { "p2", "p3" }

\* ------------------------------------------------------------ the state
VARIABLES
    now,            \* the clock every datetime.now() reads
    paper_given,    \* whether a Submission is built with its paper reference
    exams,          \* the exams collection: ExamIds -> document
    attempts,       \* the test_attempts collection: a sequence, _id = index
    submissions,    \* the submissions collection: a sequence, _id = index
    calls,          \* the submit_answer requests in flight: 1..MaxCalls -> frame
    conclusion,     \* the frame of the conclude_exam job
    scheduler       \* the scheduled callbacks, their workers and the job queue

vars == << now, paper_given, exams, attempts, submissions, calls, conclusion,
          scheduler >>

\* ------------------------------------------------------------- documents
\* A fresh TestAttempt document with the defaults of its fields.
NewAttempt(u, e, p, type, status, started) ==
    [user |-> u, exam |-> e, paper |-> p, type |-> type, status |-> status,
     started_on |-> started, ended_on |-> None,
     total_score |-> 0, max_total_score |-> 0, subject_scores |-> << >>,
     rank |-> NoRank, percentile |-> None]

NewExam(p) ==
    [paper |-> p, status |-> UPCOMING,
     start_time |-> ExamStart, end_time |-> ExamStart + ExamLength,
     concluded_on |-> None, enrolled_count |-> 0, attempted_count |-> 0,
     highest_score |-> 0, lowest_score |-> 0, max_score |-> 0]

AttemptIds == 1..Len(attempts)

\* TestAttempt.objects(**filter).first() over the attempts that satisfy
\* match: the first one, or 0.
First(hits) ==
    IF hits = {} THEN 0 ELSE CHOOSE i \in hits : \A j \in hits : i <= j

\* An attempts collection without the unique index.
NoAttemptIndex(doc) == TRUE

\* The unique index on (exam, user).  Its partial filter keeps the documents
\* in which the exam field exists; the field is declared null=True, so an
\* attempt without an exam is stored with exam null, which exists: practice
\* attempts are in the index with NoExam as their key.
AttemptIndexAllows(doc) ==
    \A i \in AttemptIds :
        ~(attempts[i].exam = doc.exam /\ attempts[i].user = doc.user)

\* ------------------------------------------------------------- the clock
Tick ==
    /\ now < MaxTime
    /\ now' = now + 1
    /\ UNCHANGED << paper_given, exams, attempts, submissions, calls, conclusion,
                 scheduler >>

\* The handler without its lookup of an existing attempt.
EnrollNoLookup(u, e) == IF e \notin ExamIds THEN 404 ELSE 200

\* ---------------------------------------------------------------- enroll
\* The status code enroll answers with (lines 52-59).
EnrollCode(u, e) ==
    IF e \notin ExamIds THEN 404
    ELSE IF First({ i \in AttemptIds :
                      attempts[i].exam = e /\ attempts[i].user = u }) # 0
    THEN 409
    ELSE 200

Enroll(u, e) ==
    /\ IF EnrollCode(u, e) # 200
       THEN UNCHANGED << attempts, exams >>
       ELSE /\ Len(attempts) < MaxAttempts
            /\ AttemptIndexAllows(NewAttempt(u, e, exams[e].paper, COMPETITIVE,
                                              NOT_STARTED, None))
            /\ attempts' = Append(attempts,
                    NewAttempt(u, e, exams[e].paper, COMPETITIVE, NOT_STARTED, None))
            /\ exams' = [exams EXCEPT ![e].enrolled_count = @ + 1]
    /\ UNCHANGED << now, paper_given, submissions, calls, conclusion, scheduler >>

\* ------------------------------------------------------------ start_test
\* The pre-enrolled attempt start_test resumes (line 47), or 0.
StartTarget(u, p, e) ==
    First({ i \in AttemptIds : /\ attempts[i].exam = e
                               /\ attempts[i].user = u
                               /\ attempts[i].paper = p })

\* A start_test without the check of the exam's window.
StartCodeNoWindow(u, p, e) ==
    IF p \notin Papers THEN 404
    ELSE IF e # NoExam /\ e \notin ExamIds THEN 404
    ELSE IF e = NoExam THEN 200
    ELSE IF exams[e].paper # p THEN 409
    ELSE IF First({ i \in AttemptIds : /\ attempts[i].exam = e
                                        /\ attempts[i].user = u
                                        /\ attempts[i].paper = p }) = 0 THEN 404
    ELSE 200

\* The status code start_test answers with: the HTTPException of lines
\* 28-49, or the server error of a save the unique index refuses (line 65).
StartCode(u, p, e) ==
    IF p \notin Papers THEN 404
    ELSE IF e # NoExam /\ e \notin ExamIds THEN 404
    ELSE IF e = NoExam
    THEN IF AttemptIndexAllows(NewAttempt(u, NoExam, p, PRACTICE, IN_PROGRESS, now))
         THEN 200 ELSE 500
    ELSE IF exams[e].paper # p THEN 409
    ELSE IF exams[e].start_time > now \/ exams[e].end_time < now THEN 409
    ELSE IF StartTarget(u, p, e) = 0 THEN 404
    ELSE 200

StartTest(u, p, e) ==
    /\ IF StartCode(u, p, e) # 200
       THEN UNCHANGED attempts
       ELSE IF e # NoExam
       THEN attempts' = [attempts EXCEPT
                ![StartTarget(u, p, e)].started_on = now,
                ![StartTarget(u, p, e)].status = IN_PROGRESS]
       ELSE /\ Len(attempts) < MaxAttempts
            /\ attempts' = Append(attempts,
                    NewAttempt(u, NoExam, p, PRACTICE, IN_PROGRESS, now))
    /\ UNCHANGED << now, paper_given, exams, submissions, calls, conclusion,
                 scheduler >>

\* A lookup of the attempt by its id alone.
EndCodeAnyUser(u, id) == IF id \notin AttemptIds THEN 404 ELSE 200

\* -------------------------------------------------------------- end_test
\* The status code end_test answers with (lines 79-81).
EndCode(u, id) ==
    IF id \notin AttemptIds \/ attempts[id].user # u THEN 404 ELSE 200

EndTest(u, id) ==
    /\ IF EndCode(u, id) # 200
       THEN UNCHANGED attempts
       ELSE attempts' = [attempts EXCEPT ![id].status = COMPLETED,
                                         ![id].ended_on = now]
    /\ UNCHANGED << now, paper_given, exams, submissions, calls, conclusion,
                 scheduler >>

\* A weighing that counts every selection as the whole weight.
WholeWeight(options, chosen, i) == IF i > Len(options) THEN 0 ELSE 100

\* ------------------------------------------------------ _score_submission
RECURSIVE SumWeights(_, _, _)
\* The loop of lines 143-147 over the chosen codes: the weights of the chosen
\* options that are marked correct, added up.
SumWeights(options, chosen, i) ==
    IF i > Len(options) THEN 0
    ELSE (IF options[i].code \in chosen /\ options[i].correct
          THEN options[i].weight ELSE 0)
         + SumWeights(options, chosen, i + 1)

\* A marking that grants the full mark whatever is chosen.
ScoreAlwaysFull(pq, question, chosen) ==
    [code |-> 200, detail |-> "scored",
     score100 |-> pq.positive_score * 100, max_score |-> pq.positive_score]

\* The marking of one matching paper entry pq (lines 122-151).  score100 is
\* the returned score in hundredths: line 148 divides by 100 in floating
\* point, the other branches return whole numbers.
ScoreEntry(pq, question, chosen) ==
    LET by_code == { question.question_options[i].code :
                        i \in DOMAIN question.question_options }
        correct_set == { question.question_options[i].code :
                            i \in { j \in DOMAIN question.question_options :
                                      question.question_options[j].correct } }
        penalty == [code |-> 200, detail |-> "scored",
                    score100 |-> -(pq.negative_score) * 100,
                    max_score |-> pq.positive_score]
    IN  IF chosen = {} /\ pq.mandatory
        THEN [code |-> 409, detail |-> "mandatory", score100 |-> 0, max_score |-> 0]
        ELSE IF \E c \in chosen : c \notin by_code THEN penalty
        ELSE IF chosen \ correct_set # {} THEN penalty
        ELSE IF question.type = SINGLE_CORRECT
        THEN [code |-> 200, detail |-> "scored",
              score100 |-> (IF chosen = {} THEN 0 ELSE pq.positive_score * 100),
              max_score |-> pq.positive_score]
        ELSE IF question.type = MULTIPLE_CORRECT
        THEN [code |-> 200, detail |-> "scored",
              score100 |-> SumWeights(question.question_options, chosen, 1)
                             * pq.positive_score,
              max_score |-> pq.positive_score]
        ELSE [code |-> 200, detail |-> "scored", score100 |-> 0,
              max_score |-> pq.positive_score]

\* A lookup that marks against the first entry of the paper, whichever
\* question it is bound to.
ScoreFirstEntry(paper, question, chosen) ==
    ScoreEntry([paper.paper_questions[1] EXCEPT !.mandatory = FALSE],
               question, chosen)

\* _score_submission: the first paper entry bound to the question decides;
\* a question with no entry in the paper is a 404.
ScoreSubmission(paper, question, chosen) ==
    LET hits == { i \in DOMAIN paper.paper_questions :
                    paper.paper_questions[i].question = question.code }
    IN  IF hits = {}
        THEN [code |-> 404, detail |-> "question_not_in_paper",
              score100 |-> 0, max_score |-> 0]
        ELSE ScoreEntry(paper.paper_questions[CHOOSE i \in hits :
                                                \A j \in hits : i <= j],
                        question, chosen)

\* int(x) of a score kept in hundredths: truncation towards zero.
IntOf(score100) ==
    IF score100 >= 0 THEN score100 \div 100 ELSE -((-score100) \div 100)

\* A window that never closes.
WindowAlwaysOpen(user_test) == TRUE

\* ---------------------------------------------------- _within_time_window
WithinTimeWindow(user_test) ==
    IF user_test.type = COMPETITIVE
    THEN /\ user_test.exam # NoExam
         /\ exams[user_test.exam].start_time <= now
         /\ now <= exams[user_test.exam].end_time
    ELSE IF user_test.type = PRACTICE
    THEN /\ user_test.started_on # None
         /\ (now - user_test.started_on) * 60
               <= Paper(user_test.paper).duration_minutes * 60
    ELSE FALSE

\* --------------------------------------------------------- submit_answer
\* Lines 161-178: find the caller's attempt, check its status and its time
\* window, look the question up and score the selection.  The result is the
\* response that ends the request there, or code 200 with the score.
SubmitCheck(u, id, q, opts) ==
    IF id \notin AttemptIds
    THEN [code |-> 409, detail |-> "not_in_progress", score100 |-> 0, max_score |-> 0]
    ELSE IF attempts[id].user # u \/ attempts[id].status # IN_PROGRESS
    THEN [code |-> 409, detail |-> "not_in_progress", score100 |-> 0, max_score |-> 0]
    ELSE IF ~WithinTimeWindow(attempts[id])
    THEN [code |-> 403, detail |-> "outside_window", score100 |-> 0, max_score |-> 0]
    ELSE IF q \notin QuestionIds
    THEN [code |-> 404, detail |-> "question_not_found", score100 |-> 0, max_score |-> 0]
    ELSE ScoreSubmission(Paper(attempts[id].paper), Question(q), opts)

\* The Submission of lines 181-189, for the loaded attempt object.  The
\* constructor call passes no paper: paper_given is FALSE for the handler as
\* written.  score is stored through an IntField, which converts with int().
SubmissionDoc(u, id, q, opts, loaded, score100, max_score) ==
    [test_attempt |-> id,
     question |-> q,
     user |-> u,
     paper |-> IF paper_given THEN loaded.paper ELSE NoPaper,
     options_chosen |-> opts,
     subject_code |-> Question(q).subject_code,
     score |-> IntOf(score100),
     max_score |-> max_score]

\* Document.validate() over the Submission fields: the required references
\* are present and score and max_score respect min_value=0.
SubmissionValidates(doc) ==
    /\ doc.paper # NoPaper
    /\ doc.max_score >= 0
    /\ doc.score >= 0

\* A submissions collection without the unique index.
NoUniqueIndex(doc) == TRUE

\* The unique index on (test_attempt, question, user).
SubmissionIndexAllows(doc) ==
    \A i \in DOMAIN submissions :
        ~(/\ submissions[i].test_attempt = doc.test_attempt
          /\ submissions[i].question = doc.question
          /\ submissions[i].user = doc.user)

\* submission.save(): validation, then the insert under the unique index.
SaveAccepts(doc) == SubmissionValidates(doc) /\ SubmissionIndexAllows(doc)

\* by_subj.get(subj): a dict built in list order keeps the last bucket with
\* that subject code; 0 when there is none.
BucketIndex(subject_scores, subj) ==
    LET hits == { i \in DOMAIN subject_scores :
                    subject_scores[i].subject_code = subj }
    IN  IF hits = {} THEN 0 ELSE CHOOSE i \in hits : \A j \in hits : j <= i

\* subject_max_map.get(subj, 0) over the paper's subject-max table.
SubjectMax(paper, subj) ==
    LET hits == { i \in DOMAIN paper.subject_max_scores :
                    paper.subject_max_scores[i].subject_code = subj }
    IN  IF hits = {} THEN 0
        ELSE paper.subject_max_scores[CHOOSE i \in hits :
                                        \A j \in hits : j <= i].max_score

NewBucket(subj, total, max) ==
    [subject_code |-> subj, total_score |-> total, max_total_score |-> max,
     rank |-> NoRank, percentile |-> None]

\* An update that adds the score to the attempt's total and leaves the
\* maxima and the subject buckets as they are.
AggregatesTotalOnly(doc, loaded, paper, question, score100) ==
    [doc EXCEPT !.total_score = loaded.total_score + IntOf(score100)]

\* Lines 197-221: the stored attempt document doc after test_attempt.save()
\* of the object that was loaded as `loaded` and changed in memory.  save()
\* writes the fields whose value changed: total_score, max_total_score, and
\* either the changed fields of the bucket at its list position or, after an
\* append, the whole subject_scores list of the object.
AggregatesWrite(doc, loaded, paper, question, score100) ==
    LET s == IntOf(score100)
        subj == question.subject_code
        subj_max == SubjectMax(paper, subj)
        k == BucketIndex(loaded.subject_scores, subj)
        d1 == IF loaded.total_score + s # loaded.total_score
              THEN [doc EXCEPT !.total_score = loaded.total_score + s]
              ELSE doc
        d2 == IF loaded.max_total_score # paper.max_score
              THEN [d1 EXCEPT !.max_total_score = paper.max_score]
              ELSE d1
    IN  IF k = 0
        THEN [d2 EXCEPT !.subject_scores =
                 Append(loaded.subject_scores, NewBucket(subj, s, subj_max))]
        ELSE IF k \notin DOMAIN d2.subject_scores THEN d2
        ELSE LET d3 == IF s # 0
                       THEN [d2 EXCEPT !.subject_scores[k].total_score =
                                loaded.subject_scores[k].total_score + s]
                       ELSE d2
             IN  IF loaded.subject_scores[k].max_total_score # subj_max
                 THEN [d3 EXCEPT !.subject_scores[k].max_total_score = subj_max]
                 ELSE d3


\* The response of submit_answer when the whole handler runs at once.
SubmitResponse(u, id, q, opts) ==
    LET r == SubmitCheck(u, id, q, opts)
    IN  IF r.code # 200 THEN [code |-> r.code, detail |-> r.detail]
        ELSE IF ~SaveAccepts(SubmissionDoc(u, id, q, opts, attempts[id],
                                           r.score100, r.max_score))
        THEN [code |-> 409, detail |-> "already_submitted"]
        ELSE [code |-> 200, detail |-> "ok"]

\* submit_answer run from its first line to its return with no other request
\* in between.  agg_ok: whether the save of the attempt (line 221) succeeds;
\* when it raises, the handler passes (lines 222-223).
SubmitAnswer(u, id, q, opts, agg_ok) ==
    /\ LET r == SubmitCheck(u, id, q, opts)
       IN  IF SubmitResponse(u, id, q, opts).code # 200
           THEN UNCHANGED << submissions, attempts >>
           ELSE /\ submissions' = Append(submissions,
                        SubmissionDoc(u, id, q, opts, attempts[id],
                                      r.score100, r.max_score))
                /\ attempts' =
                      IF agg_ok
                      THEN [attempts EXCEPT ![id] =
                              AggregatesWrite(@, attempts[id],
                                  Paper(attempts[id].paper), Question(q),
                                  r.score100)]
                      ELSE attempts
    /\ UNCHANGED << now, paper_given, exams, calls, conclusion, scheduler >>

\* ------------------------------------- submit_answer, one request per frame
\* The frame of one submit_answer request: its arguments, the TestAttempt
\* object it loaded (a one-element sequence while the request holds it), the
\* score it computed, and its response once it has returned.
IdleCall ==
    [pc |-> "idle", user |-> "-", attempt |-> 0, question |-> "-",
     options |-> {}, loaded |-> << >>, score100 |-> 0, max_score |-> 0,
     code |-> 0, detail |-> "-", aggregated |-> "-"]

Calls == 1..MaxCalls

\* Lines 161-178.  Frames are taken in order: frame c starts once frame c-1
\* has.
SubmitLoad(c, u, id, q, opts) ==
    /\ calls[c].pc = "idle"
    /\ c > 1 => calls[c - 1].pc # "idle"
    /\ LET r == SubmitCheck(u, id, q, opts)
           frame == [calls[c] EXCEPT !.user = u, !.attempt = id,
                                     !.question = q, !.options = opts]
       IN  IF r.code # 200
           THEN calls' = [calls EXCEPT ![c] =
                    [frame EXCEPT !.pc = "done", !.code = r.code,
                                  !.detail = r.detail]]
           ELSE calls' = [calls EXCEPT ![c] =
                    [frame EXCEPT !.pc = "save",
                                  !.loaded = << attempts[id] >>,
                                  !.score100 = r.score100,
                                  !.max_score = r.max_score]]
    /\ UNCHANGED << now, paper_given, exams, attempts, submissions, conclusion,
                 scheduler >>

FrameDoc(c) ==
    SubmissionDoc(calls[c].user, calls[c].attempt, calls[c].question,
                  calls[c].options, calls[c].loaded[1], calls[c].score100,
                  calls[c].max_score)

\* Lines 190-193: save the Submission; any exception is answered 409
\* "Already submitted for this question".
SubmitSave(c) ==
    /\ calls[c].pc = "save"
    /\ IF SaveAccepts(FrameDoc(c))
       THEN /\ submissions' = Append(submissions, FrameDoc(c))
            /\ calls' = [calls EXCEPT ![c].pc = "aggregate"]
       ELSE /\ submissions' = submissions
            /\ calls' = [calls EXCEPT ![c] =
                    [@ EXCEPT !.pc = "done", !.code = 409,
                              !.detail = "already_submitted",
                              !.loaded = << >>]]
    /\ UNCHANGED << now, paper_given, exams, attempts, conclusion, scheduler >>

\* Lines 195-225 when the save of the attempt succeeds.
SubmitAggregates(c) ==
    /\ calls[c].pc = "aggregate"
    /\ attempts' = [attempts EXCEPT ![calls[c].attempt] =
            AggregatesWrite(@, calls[c].loaded[1],
                            Paper(calls[c].loaded[1].paper),
                            Question(calls[c].question), calls[c].score100)]
    /\ calls' = [calls EXCEPT ![c] =
            [@ EXCEPT !.pc = "done", !.code = 200, !.detail = "ok",
                      !.aggregated = "written", !.loaded = << >>]]
    /\ UNCHANGED << now, paper_given, exams, submissions, conclusion, scheduler >>

\* A handler that lets the exception of the attempt's save through: the
\* request ends with a server error.
SubmitAggregatesRaise(c) ==
    /\ calls[c].pc = "aggregate"
    /\ calls' = [calls EXCEPT ![c] =
            [@ EXCEPT !.pc = "done", !.code = 500, !.detail = "error",
                      !.aggregated = "failed", !.loaded = << >>]]
    /\ UNCHANGED << now, paper_given, exams, attempts, submissions, conclusion,
                    scheduler >>

\* Lines 195-225 when the save of the attempt raises: the handler passes.
SubmitAggregatesFail(c) ==
    /\ calls[c].pc = "aggregate"
    /\ calls' = [calls EXCEPT ![c] =
            [@ EXCEPT !.pc = "done", !.code = 200, !.detail = "ok",
                      !.aggregated = "failed", !.loaded = << >>]]
    /\ UNCHANGED << now, paper_given, exams, attempts, submissions, conclusion,
                 scheduler >>

\* ---------------------------------------------------- enroll, step by step
UnknownExam == "e0"

\* Lines 52-59: the exam is loaded and an existing attempt of the caller
\* looked up; the request goes on to the insert only when there is none.
EnrollLoad(c, u, e) ==
    /\ calls[c].pc = "idle"
    /\ c > 1 => calls[c - 1].pc # "idle"
    /\ LET code == EnrollCode(u, e)
       IN  calls' = [calls EXCEPT ![c] =
               IF code # 200
               THEN [pc |-> "done", user |-> u, exam |-> e, loaded |-> << >>,
                     code |-> code]
               ELSE [pc |-> "enroll_save", user |-> u, exam |-> e,
                     loaded |-> << exams[e] >>, code |-> 0]]
    /\ UNCHANGED << now, paper_given, exams, attempts, submissions, conclusion,
                    scheduler >>

\* Lines 62-71: the insert; a duplicate key error of the unique index is not
\* caught and ends the request with a server error.
EnrollSave(c) ==
    /\ calls[c].pc = "enroll_save"
    /\ LET doc == NewAttempt(calls[c].user, calls[c].exam,
                             calls[c].loaded[1].paper, COMPETITIVE,
                             NOT_STARTED, None)
       IN  IF AttemptIndexAllows(doc)
           THEN /\ attempts' = Append(attempts, doc)
                /\ calls' = [calls EXCEPT ![c].pc = "enroll_count"]
           ELSE /\ attempts' = attempts
                /\ calls' = [calls EXCEPT ![c].pc = "done", ![c].code = 500,
                                          ![c].loaded = << >>]
    /\ UNCHANGED << now, paper_given, exams, submissions, conclusion, scheduler >>

\* A counter that is stepped by two for each enrolment.
EnrollCountByTwo(c) ==
    /\ calls[c].pc = "enroll_count"
    /\ exams' = [exams EXCEPT ![calls[c].exam].enrolled_count =
                    calls[c].loaded[1].enrolled_count + 2]
    /\ calls' = [calls EXCEPT ![c].pc = "done", ![c].code = 200,
                              ![c].loaded = << >>]
    /\ UNCHANGED << now, paper_given, attempts, submissions, conclusion,
                    scheduler >>

\* Lines 72-75 and 78: the counter of the loaded exam plus one is saved.
EnrollCount(c) ==
    /\ calls[c].pc = "enroll_count"
    /\ exams' = [exams EXCEPT ![calls[c].exam].enrolled_count =
                    calls[c].loaded[1].enrolled_count + 1]
    /\ calls' = [calls EXCEPT ![c].pc = "done", ![c].code = 200,
                              ![c].loaded = << >>]
    /\ UNCHANGED << now, paper_given, attempts, submissions, conclusion,
                    scheduler >>

\* Lines 76-78: the save of the exam raises and the handler passes.
EnrollCountFail(c) ==
    /\ calls[c].pc = "enroll_count"
    /\ calls' = [calls EXCEPT ![c].pc = "done", ![c].code = 200,
                              ![c].loaded = << >>]
    /\ UNCHANGED << now, paper_given, exams, attempts, submissions, conclusion,
                    scheduler >>

\* ------------------------------------------------------------ conclude_exam
\* Line 21: the statuses conclude_exam ranks.
active_statuses == { IN_PROGRESS, COMPLETED }

\* Line 39 sets the batch to 5000 updates; the model runs with a batch of
\* two, so that a batch fills with the attempts it holds.
batch_size == 2

\* round(100.0 * num / den, 4), kept in ten-thousandths.
Round4(num, den) == (2 * 1000000 * num + den) \div (2 * den)

\* A $match on the exam alone, whatever the status.
AnyStatusIds(coll, e) == { i \in DOMAIN coll : coll[i].exam = e }

\* The $match of lines 22, 34 and 83.
ActiveIds(coll, e) ==
    { i \in DOMAIN coll : coll[i].exam = e /\ coll[i].status \in active_statuses }

\* The filter of lines 75-79: active attempts with a bucket of the subject.
SubjectIds(coll, e, subj) ==
    { i \in ActiveIds(coll, e) :
        \E k \in DOMAIN coll[i].subject_scores :
            coll[i].subject_scores[k].subject_code = subj }

\* A cursor without the $sort: the documents in any order.
UnsortedCursors(docs) ==
    LET n == Cardinality(docs)
    IN  { cur \in [1 .. n -> docs] : \A i, j \in 1 .. n : i # j => cur[i] # cur[j] }

\* What a $sort descending may return for the documents docs: every order of
\* them in which no score grows; the order inside a tie is the server's.
SortedCursors(docs) ==
    LET n == Cardinality(docs)
    IN  { cur \in [1 .. n -> docs] :
            /\ \A i, j \in 1 .. n : i # j => cur[i] # cur[j]
            /\ \A i, j \in 1 .. n : i < j => cur[i].score >= cur[j].score }

\* Lines 33-37: one projected document per active attempt.
OverallDocs(coll, e) ==
    { [id |-> i, k |-> 0, score |-> coll[i].total_score] : i \in ActiveIds(coll, e) }

\* Lines 82-88: after the $unwind, one document per bucket of the subject.
SubjectDocs(coll, e, subj) ==
    UNION { { [id |-> i, k |-> k, score |-> coll[i].subject_scores[k].total_score] :
                k \in { m \in DOMAIN coll[i].subject_scores :
                          coll[i].subject_scores[m].subject_code = subj } } :
            i \in ActiveIds(coll, e) }

\* The update as an increment of the stored rank instead of a $set.
IncOverall(coll, op) ==
    [coll EXCEPT ![op.id] =
        [@ EXCEPT !.rank = @ + op.rank, !.percentile = op.percentile]]

\* Lines 59-62: the update of one attempt's overall rank and percentile.
ApplyOverall(coll, op) ==
    [coll EXCEPT ![op.id] =
        [@ EXCEPT !.rank = op.rank, !.percentile = op.percentile]]

\* The update without its array filter: every bucket of the attempt is set.
ApplyEveryBucket(coll, op) ==
    [coll EXCEPT ![op.id].subject_scores =
        [k \in DOMAIN @ |->
            [@[k] EXCEPT !.rank = op.rank, !.percentile = op.percentile]]]

\* Lines 102-106: the update, through the array filter, of every bucket of
\* the subject in one attempt.
ApplySubject(coll, op) ==
    [coll EXCEPT ![op.id].subject_scores =
        [k \in DOMAIN @ |->
            IF @[k].subject_code = op.subj
            THEN [@[k] EXCEPT !.rank = op.rank, !.percentile = op.percentile]
            ELSE @[k]]]

RECURSIVE bulk_write(_, _, _)
\* collection.bulk_write(operations, ordered=False): the operations of one
\* batch aim at different documents, so their order does not show.
bulk_write(coll, operations, i) ==
    IF i > Len(operations) THEN coll
    ELSE bulk_write(IF operations[i].subj = "-"
                    THEN ApplyOverall(coll, operations[i])
                    ELSE ApplySubject(coll, operations[i]),
                    operations, i + 1)

\* Every document opens a rank group, tied with the one before or not.
AlwaysNewGroup(prev_score, score) == TRUE

\* Lines 53 and 97: the document opens a new rank group.
NewGroup(prev_score, score) == prev_score = << >> \/ score < prev_score[1]

\* The record of one bulk_write: writes keeps, in order, the size of each
\* batch of the pass, written the number of updates sent so far for each
\* attempt.
Sent(st) ==
    [st EXCEPT
       !.writes = Append(@, Len(st.operations)),
       !.written = [i \in DOMAIN @ |->
                       @[i] + Cardinality({ j \in DOMAIN st.operations :
                                              st.operations[j].id = i })]]

\* Lines 63-65 and 107-109: a full batch is written and the buffer cleared.
Flush(st) ==
    IF Len(st.operations) >= batch_size
    THEN [Sent(st) EXCEPT !.coll = bulk_write(st.coll, st.operations, 1),
                          !.operations = << >>]
    ELSE st

\* A pass that ends without writing what is left in the buffer.
KeepRest(st) == st

\* Lines 66-68 and 110-112: what is left in the buffer is written.
FlushRest(st) ==
    IF st.operations # << >>
    THEN [Sent(st) EXCEPT !.coll = bulk_write(st.coll, st.operations, 1),
                          !.operations = << >>]
    ELSE st

\* The loop variables at the start of a pass; operations is the one list of
\* line 40, which every pass goes on with.
LoopState(coll, operations) ==
    [idx |-> 0, current_rank |-> 0, prev_score |-> << >>,
     highest_score |-> << >>, lowest_score |-> << >>,
     operations |-> operations, writes |-> << >>,
     written |-> [i \in DOMAIN coll |-> 0], coll |-> coll]

RECURSIVE OverallLoop(_, _, _, _)
\* Lines 47-65: the rank is taken before idx is advanced and stored as
\* current_rank + 1; the percentile is computed from current_rank itself.
OverallLoop(cursor, i, total_attempts, st) ==
    IF i > Len(cursor) THEN st
    ELSE LET total_score == cursor[i].score
             fresh == NewGroup(st.prev_score, total_score)
             current_rank == IF fresh THEN st.idx ELSE st.current_rank
             percentile == Round4(total_attempts - current_rank, total_attempts)
         IN  OverallLoop(cursor, i + 1, total_attempts, Flush(
               [st EXCEPT
                  !.highest_score = IF @ = << >> THEN << total_score >> ELSE @,
                  !.lowest_score = << total_score >>,
                  !.current_rank = current_rank,
                  !.prev_score = IF fresh THEN << total_score >> ELSE @,
                  !.idx = @ + 1,
                  !.operations = Append(@,
                      [id |-> cursor[i].id, subj |-> "-",
                       rank |-> current_rank + 1, percentile |-> percentile])]))

RECURSIVE SubjectLoop(_, _, _, _, _)
\* Lines 93-109: idx is advanced first, the rank is current_rank and the
\* percentile is computed from it.
SubjectLoop(cursor, i, subj, subj_total, st) ==
    IF i > Len(cursor) THEN st
    ELSE LET s == cursor[i].score
             idx == st.idx + 1
             fresh == NewGroup(st.prev_score, s)
             current_rank == IF fresh THEN idx ELSE st.current_rank
             percentile == Round4(subj_total - current_rank, subj_total)
         IN  SubjectLoop(cursor, i + 1, subj, subj_total, Flush(
               [st EXCEPT
                  !.idx = idx,
                  !.current_rank = current_rank,
                  !.prev_score = IF fresh THEN << s >> ELSE @,
                  !.operations = Append(@,
                      [id |-> cursor[i].id, subj |-> subj,
                       rank |-> current_rank, percentile |-> percentile])]))

\* A save that stores the aggregates and leaves concluded_on as it was.
ExamSaveNoStamp(doc, loaded, attempted_count, highest_score, lowest_score, max_score) ==
    [doc EXCEPT !.attempted_count = attempted_count,
                !.highest_score = highest_score,
                !.lowest_score = lowest_score,
                !.max_score = max_score]

\* exam.save(): the fields whose value differs from the loaded document are
\* written, the others are left as the collection has them.
ExamSave(doc, loaded, attempted_count, highest_score, lowest_score, max_score) ==
    [doc EXCEPT
       !.concluded_on = IF loaded.concluded_on # now THEN now ELSE @,
       !.attempted_count =
            IF loaded.attempted_count # attempted_count THEN attempted_count ELSE @,
       !.highest_score =
            IF loaded.highest_score # highest_score THEN highest_score ELSE @,
       !.lowest_score =
            IF loaded.lowest_score # lowest_score THEN lowest_score ELSE @,
       !.max_score = IF loaded.max_score # max_score THEN max_score ELSE @]

RECURSIVE SumPositive(_, _)
\* Line 119: the sum of positive_score over the paper's entries.
SumPositive(paper_questions, i) ==
    IF i > Len(paper_questions) THEN 0
    ELSE paper_questions[i].positive_score + SumPositive(paper_questions, i + 1)

\* operations is the buffer of pending updates; writes and written are the
\* record of the bulk writes of the pass just run.
IdleConclusion ==
    [pc |-> "idle", exam |-> "-", loaded |-> << >>, total_attempts |-> 0,
     highest_score |-> << >>, lowest_score |-> << >>, subject |-> 0, runs |-> 0,
     operations |-> << >>, writes |-> << >>, written |-> << >>,
     subj_total |-> 0]

\* Lines 14-30: the exam is loaded and the active attempts counted; with
\* none, the exam is concluded with zeros and the cached paper maximum.
ConcludeBegin(e) ==
    /\ conclusion.pc \in { "idle", "done" }
    /\ conclusion.runs < MaxRuns
    /\ LET total_attempts == Cardinality(ActiveIds(attempts, e))
           frame == [IdleConclusion EXCEPT !.exam = e,
                                           !.runs = conclusion.runs + 1]
       IN  IF total_attempts = 0
           THEN /\ exams' = [exams EXCEPT ![e] =
                        ExamSave(@, exams[e], 0, 0, 0, Paper(exams[e].paper).max_score)]
                /\ conclusion' = [frame EXCEPT !.pc = "done"]
           ELSE /\ exams' = exams
                /\ conclusion' = [frame EXCEPT !.pc = "overall",
                                               !.loaded = << exams[e] >>,
                                               !.total_attempts = total_attempts]
    /\ UNCHANGED << now, paper_given, attempts, submissions, calls, scheduler >>

\* Lines 33-68: the overall pass over the sorted cursor.
ConcludeOverall ==
    /\ conclusion.pc = "overall"
    /\ \E cursor \in SortedCursors(OverallDocs(attempts, conclusion.exam)) :
          LET st == FlushRest(OverallLoop(cursor, 1, conclusion.total_attempts,
                                  LoopState(attempts, conclusion.operations)))
          IN  /\ attempts' = st.coll
              /\ conclusion' = [conclusion EXCEPT
                                   !.pc = "subjects",
                                   !.subject = 1,
                                   !.operations = st.operations,
                                   !.writes = st.writes,
                                   !.written = st.written,
                                   !.highest_score = st.highest_score,
                                   !.lowest_score = st.lowest_score]
    /\ UNCHANGED << now, paper_given, exams, submissions, calls, scheduler >>

\* Lines 73-112: one turn of the loop over the paper's subjects.
ConcludeSubject ==
    /\ conclusion.pc = "subjects"
    /\ LET subjects == Paper(conclusion.loaded[1].paper).subject_max_scores
       IN  /\ conclusion.subject <= Len(subjects)
           /\ LET subj == subjects[conclusion.subject].subject_code
                  subj_total ==
                      Cardinality(SubjectIds(attempts, conclusion.exam, subj))
              IN  IF subj_total = 0
                  THEN /\ attempts' = attempts
                       /\ conclusion' = [conclusion EXCEPT
                                            !.subject = @ + 1,
                                            !.writes = << >>,
                                            !.written = [i \in DOMAIN attempts |-> 0]]
                  ELSE \E cursor \in SortedCursors(
                                SubjectDocs(attempts, conclusion.exam, subj)) :
                          LET st == FlushRest(SubjectLoop(cursor, 1, subj,
                                      subj_total,
                                      LoopState(attempts, conclusion.operations)))
                          IN  /\ attempts' = st.coll
                              /\ conclusion' = [conclusion EXCEPT
                                                   !.subject = @ + 1,
                                                   !.operations = st.operations,
                                                   !.writes = st.writes,
                                                   !.written = st.written]
    /\ UNCHANGED << now, paper_given, exams, submissions, calls, scheduler >>

\* Lines 73-81, for a run that other requests can interleave with: the count
\* of the attempts that hold a bucket of the subject; with none the loop goes
\* on to the next subject.
ConcludeSubjectCount ==
    /\ conclusion.pc = "subjects"
    /\ LET subjects == Paper(conclusion.loaded[1].paper).subject_max_scores
       IN  /\ conclusion.subject <= Len(subjects)
           /\ LET subj == subjects[conclusion.subject].subject_code
                  subj_total ==
                      Cardinality(SubjectIds(attempts, conclusion.exam, subj))
              IN  conclusion' =
                     IF subj_total = 0
                     THEN [conclusion EXCEPT
                              !.subject = @ + 1,
                              !.writes = << >>,
                              !.written = [i \in DOMAIN attempts |-> 0]]
                     ELSE [conclusion EXCEPT !.pc = "stream",
                                             !.subj_total = subj_total]
    /\ UNCHANGED << now, paper_given, exams, attempts, submissions, calls,
                    scheduler >>

\* Lines 82-112: the sorted stream over the buckets of the subject as the
\* collection holds them now, ranked against the count taken before.
ConcludeSubjectStream ==
    /\ conclusion.pc = "stream"
    /\ LET subjects == Paper(conclusion.loaded[1].paper).subject_max_scores
           subj == subjects[conclusion.subject].subject_code
       IN  \E cursor \in SortedCursors(SubjectDocs(attempts, conclusion.exam, subj)) :
              LET st == FlushRest(SubjectLoop(cursor, 1, subj,
                          conclusion.subj_total,
                          LoopState(attempts, conclusion.operations)))
              IN  /\ attempts' = st.coll
                  /\ conclusion' = [conclusion EXCEPT
                                       !.pc = "subjects",
                                       !.subject = @ + 1,
                                       !.subj_total = 0,
                                       !.operations = st.operations,
                                       !.writes = st.writes,
                                       !.written = st.written]
    /\ UNCHANGED << now, paper_given, exams, submissions, calls, scheduler >>

\* Lines 114-121: the exam's aggregates are stored.
ConcludeFinish ==
    /\ conclusion.pc = "subjects"
    /\ LET paper == Paper(conclusion.loaded[1].paper)
           highest_score == IF conclusion.highest_score = << >> THEN 0
                            ELSE conclusion.highest_score[1]
           lowest_score == IF conclusion.lowest_score = << >> THEN 0
                           ELSE conclusion.lowest_score[1]
       IN  /\ conclusion.subject > Len(paper.subject_max_scores)
           /\ exams' = [exams EXCEPT ![conclusion.exam] =
                   ExamSave(@, conclusion.loaded[1], conclusion.total_attempts,
                            highest_score, lowest_score,
                            SumPositive(paper.paper_questions, 1))]
    /\ conclusion' = [conclusion EXCEPT !.pc = "done", !.loaded = << >>,
                                        !.highest_score = << >>,
                                        !.lowest_score = << >>]
    /\ UNCHANGED << now, paper_given, attempts, submissions, calls, scheduler >>

\* ------------------------------------------------- the scheduled callbacks
Funcs == { "mark_exam_started", "mark_exam_ended" }
JobKeys == [func : Funcs, exam : ExamIds]
Workers == 1 .. MaxWorkers

IdleWorker == [pc |-> "idle", func |-> "-", exam |-> "-", loaded |-> << >>]

\* Nothing scheduled, nothing queued, the application process not yet up.
\* delivered and handled count, per callback, the deliveries made and the
\* handler runs that returned.
IdleScheduler ==
    [started |-> FALSE,
     scheduled |-> {},
     delivered |-> [k \in JobKeys |-> 0],
     handled |-> [k \in JobKeys |-> 0],
     workers |-> [w \in Workers |-> IdleWorker],
     queue |-> << >>]

\* schedule_at(run_at, func, exam_id): the job is parked until run_at.
schedule_at(scheduled, run_at, func, e) ==
    scheduled \cup { [func |-> func, exam |-> e, run_at |-> run_at] }

\* schedule_exam_jobs(exam): the start callback for an upcoming exam, the
\* end callback for every exam.
ScheduleExamJobs(e) ==
    /\ LET first == IF exams[e].status = UPCOMING
                    THEN schedule_at(scheduler.scheduled, exams[e].start_time,
                                     "mark_exam_started", e)
                    ELSE scheduler.scheduled
       IN  scheduler' = [scheduler EXCEPT !.scheduled =
                schedule_at(first, exams[e].end_time, "mark_exam_ended", e)]
    /\ UNCHANGED << now, paper_given, exams, attempts, submissions, calls,
                    conclusion >>

\* combined_lifespan: the process comes up, connects to the stores and
\* serves; it schedules nothing.
Restart ==
    /\ ~scheduler.started
    /\ scheduler' = [scheduler EXCEPT !.started = TRUE]
    /\ UNCHANGED << now, paper_given, exams, attempts, submissions, calls,
                    conclusion >>

\* Line 137 and line 147: whether the callback acts on the loaded exam.
MarkCondition(func, exam) ==
    IF func = "mark_exam_started"
    THEN /\ exam.status = UPCOMING
         /\ exam.start_time <= now
         /\ now < exam.end_time
    ELSE /\ exam.status = ONGOING
         /\ exam.end_time <= now

\* A due job is handed to a worker, which loads the exam and tests the
\* condition (lines 133-137, 143-147).  A job is delivered at least once and
\* up to MaxDeliveries times.
Deliver(w, job) ==
    /\ job \in scheduler.scheduled
    /\ job.run_at <= now
    /\ scheduler.workers[w].pc = "idle"
    /\ LET k == [func |-> job.func, exam |-> job.exam]
       IN  /\ scheduler.delivered[k] < MaxDeliveries
           /\ IF MarkCondition(job.func, exams[job.exam])
              THEN scheduler' = [scheduler EXCEPT
                       !.delivered[k] = @ + 1,
                       !.workers[w] = [pc |-> "save", func |-> job.func,
                                       exam |-> job.exam,
                                       loaded |-> << exams[job.exam] >>]]
              ELSE scheduler' = [scheduler EXCEPT
                       !.delivered[k] = @ + 1,
                       !.handled[k] = @ + 1]
    /\ UNCHANGED << now, paper_given, exams, attempts, submissions, calls,
                    conclusion >>

\* Lines 138-139 and 148-150: the new status is saved; mark_exam_ended then
\* enqueues conclude_exam.
MarkSave(w) ==
    /\ scheduler.workers[w].pc = "save"
    /\ LET f == scheduler.workers[w]
           k == [func |-> f.func, exam |-> f.exam]
       IN  IF f.func = "mark_exam_started"
           THEN /\ exams' = [exams EXCEPT ![f.exam].status = ONGOING]
                /\ scheduler' = [scheduler EXCEPT
                       !.workers[w] = IdleWorker,
                       !.handled[k] = @ + 1]
           ELSE /\ exams' = [exams EXCEPT ![f.exam].status = EXAM_COMPLETED]
                /\ scheduler' = [scheduler EXCEPT
                       !.workers[w] = IdleWorker,
                       !.handled[k] = @ + 1,
                       !.queue = Append(@, [func |-> "conclude_exam",
                                            exam |-> f.exam])]
    /\ UNCHANGED << now, paper_given, attempts, submissions, calls, conclusion >>

\* The scheduler drops a job it has handed over.
Retire(job) ==
    /\ job \in scheduler.scheduled
    /\ scheduler.delivered[[func |-> job.func, exam |-> job.exam]] >= 1
    /\ scheduler' = [scheduler EXCEPT !.scheduled = @ \ { job }]
    /\ UNCHANGED << now, paper_given, exams, attempts, submissions, calls,
                    conclusion >>

\* ------------------------------------------------------ the specifications

\* The requests one after another, from the empty collections.
Init ==
    /\ now = 0
    /\ paper_given \in BOOLEAN
    /\ exams = [e \in ExamIds |-> NewExam("p1")]
    /\ attempts = << >>
    /\ submissions = << >>
    /\ calls = [c \in Calls |-> IdleCall]
    /\ conclusion = IdleConclusion
    /\ scheduler = IdleScheduler

Next ==
    \/ Tick
    \/ \E u \in Users, e \in ExamIds : Enroll(u, e)
    \/ \E u \in Users, p \in PaperIds, e \in ExamIds \cup {NoExam} :
          StartTest(u, p, e)
    \/ \E u \in Users, id \in AttemptIds : EndTest(u, id)
    \/ \E u \in Users, id \in AttemptIds, q \in QuestionIds, opts \in Choices :
          SubmitAnswer(u, id, q, opts, TRUE)

Spec == Init /\ [][Next]_vars

\* Enrolling in the exam, starting it with any stored paper named, and
\* ending.
StartNext ==
    \/ Tick
    \/ \E u \in Users, e \in ExamIds : Enroll(u, e)
    \/ \E u \in Users, p \in Papers, e \in ExamIds : StartTest(u, p, e)
    \/ \E u \in Users, id \in AttemptIds : EndTest(u, id)

SpecStart == Init /\ [][StartNext]_vars

\* Concurrent enroll requests, from the empty attempts collection.
EnrollNext ==
    \/ \E c \in Calls, u \in Users, e \in ExamIds \cup { UnknownExam } :
          EnrollLoad(c, u, e)
    \/ \E c \in Calls : EnrollSave(c)
    \/ \E c \in Calls : EnrollCount(c)
    \/ \E c \in Calls : EnrollCountFail(c)

SpecEnroll == Init /\ [][EnrollNext]_vars

\* Concurrent submit_answer requests against attempts that are under way:
\* u1's enrolled attempt of the exam and a practice attempt of u2, both
\* started when the exam opened.
SubmitInit ==
    /\ now = ExamStart
    /\ paper_given \in BOOLEAN
    /\ exams = [e \in ExamIds |-> [NewExam("p1") EXCEPT !.enrolled_count = 1]]
    /\ attempts = << NewAttempt("u1", "e1", "p1", COMPETITIVE, IN_PROGRESS, ExamStart),
                     NewAttempt("u2", NoExam, "p1", PRACTICE, IN_PROGRESS, ExamStart) >>
    /\ submissions = << >>
    /\ calls = [c \in Calls |-> IdleCall]
    /\ conclusion = IdleConclusion
    /\ scheduler = IdleScheduler

SubmitNext ==
    \/ Tick
    \/ \E u \in Users, id \in AttemptIds : EndTest(u, id)
    \/ \E c \in Calls, u \in Users, id \in AttemptIds, q \in QuestionIds,
          opts \in Choices : SubmitLoad(c, u, id, q, opts)
    \/ \E c \in Calls : SubmitSave(c)
    \/ \E c \in Calls : SubmitAggregates(c)
    \/ \E c \in Calls : SubmitAggregatesFail(c)

SpecSubmit == SubmitInit /\ [][SubmitNext]_vars

\* conclude_exam, run up to MaxRuns times over a collection of attempts as
\* the requests can have left it.  A shape is the aggregate part of an
\* attempt: its total and its subject buckets.
Shapes ==
    { [total_score |-> 0, subject_scores |-> << >>],
      [total_score |-> 0, subject_scores |-> << NewBucket("maths", 0, positive_score) >>],
      [total_score |-> 4, subject_scores |-> << NewBucket("maths", 4, positive_score) >>],
      [total_score |-> 2, subject_scores |-> << NewBucket("science", 2, positive_score) >>],
      [total_score |-> 6, subject_scores |-> << NewBucket("maths", 4, positive_score),
                                                NewBucket("science", 2, positive_score) >>],
      [total_score |-> 4, subject_scores |-> << NewBucket("science", 4, positive_score),
                                                NewBucket("maths", 0, positive_score) >>] }

\* An enrolled attempt that was started or ended carries any shape; one that
\* was never started carries nothing; a practice attempt has no exam.
Profiles ==
    { [exam |-> "e1", status |-> s, shape |-> sh] :
        s \in active_statuses, sh \in Shapes }
    \cup { [exam |-> "e1", status |-> NOT_STARTED,
            shape |-> [total_score |-> 0, subject_scores |-> << >>]] }
    \cup { [exam |-> NoExam, status |-> IN_PROGRESS,
            shape |-> [total_score |-> 6,
                       subject_scores |-> << NewBucket("maths", 4, positive_score),
                                             NewBucket("science", 2, positive_score) >>]] }

ConcludeUsers == << "u1", "u2", "u3", "u4", "u5" >>

ProfileAttempt(i, pf) ==
    [NewAttempt(ConcludeUsers[i], pf.exam, "p1",
                IF pf.exam = NoExam THEN PRACTICE ELSE COMPETITIVE,
                pf.status, IF pf.status = NOT_STARTED THEN None ELSE ExamStart)
       EXCEPT !.total_score = pf.shape.total_score,
              !.subject_scores = pf.shape.subject_scores,
              !.max_total_score = IF pf.shape.subject_scores = << >> THEN 0
                                  ELSE Paper("p1").max_score]

ConcludeInit ==
    /\ now = MaxTime
    /\ paper_given = FALSE
    /\ exams = [e \in ExamIds |-> NewExam("p1")]
    /\ \E n \in 0 .. MaxConcludeAttempts :
          \E f \in [1 .. n -> Profiles] :
              attempts = [i \in 1 .. n |-> ProfileAttempt(i, f[i])]
    /\ submissions = << >>
    /\ calls = [c \in Calls |-> IdleCall]
    /\ conclusion = IdleConclusion
    /\ scheduler = IdleScheduler

ConcludeNext ==
    \/ \E e \in ExamIds : ConcludeBegin(e)
    \/ ConcludeOverall
    \/ ConcludeSubject
    \/ ConcludeFinish

SpecConclude == ConcludeInit /\ [][ConcludeNext]_vars

\* conclude_exam over attempts of every kind: of the exam, started or ended,
\* never started or cancelled; of another exam; practice attempts.  The exam
\* is bound to paper p1 or to p3, whose cached max_score is stale.
OtherExam == "e2"

MixedProfiles ==
    { [exam |-> "e1", status |-> IN_PROGRESS,
       shape |-> [total_score |-> 0, subject_scores |-> << >>]],
      [exam |-> "e1", status |-> IN_PROGRESS,
       shape |-> [total_score |-> 4,
                  subject_scores |-> << NewBucket("maths", 4, positive_score) >>]],
      [exam |-> "e1", status |-> COMPLETED,
       shape |-> [total_score |-> 6,
                  subject_scores |-> << NewBucket("maths", 4, positive_score),
                                        NewBucket("science", 2, positive_score) >>]],
      [exam |-> "e1", status |-> NOT_STARTED,
       shape |-> [total_score |-> 0, subject_scores |-> << >>]],
      [exam |-> "e1", status |-> CANCELLED,
       shape |-> [total_score |-> 4,
                  subject_scores |-> << NewBucket("maths", 4, positive_score) >>]],
      [exam |-> OtherExam, status |-> COMPLETED,
       shape |-> [total_score |-> 6,
                  subject_scores |-> << NewBucket("maths", 4, positive_score),
                                        NewBucket("science", 2, positive_score) >>]],
      [exam |-> NoExam, status |-> IN_PROGRESS,
       shape |-> [total_score |-> 6,
                  subject_scores |-> << NewBucket("maths", 4, positive_score),
                                        NewBucket("science", 2, positive_score) >>]] }

ConcludePapers == { "p1", "p3" }

MixedInit ==
    /\ now = MaxTime
    /\ paper_given = FALSE
    /\ \E p \in ConcludePapers :
          /\ exams = [e \in ExamIds |-> NewExam(p)]
          /\ \E n \in 0 .. MaxConcludeAttempts :
                \E f \in [1 .. n -> MixedProfiles] :
                    attempts = [i \in 1 .. n |->
                        [ProfileAttempt(i, f[i]) EXCEPT
                            !.paper = IF f[i].exam = "e1" THEN p ELSE "p1"]]
    /\ submissions = << >>
    /\ calls = [c \in Calls |-> IdleCall]
    /\ conclusion = IdleConclusion
    /\ scheduler = IdleScheduler

SpecConcludeMixed == MixedInit /\ [][ConcludeNext]_vars

\* The callbacks of one exam, from the instant it opens, with an enrolled
\* and a practice attempt under way.  Every job that is scheduled is
\* delivered, every handler that has loaded its exam goes on, and the clock
\* advances; nobody is bound to call end_test or schedule_exam_jobs.
ScheduleInit ==
    /\ now = ExamStart
    /\ paper_given = FALSE
    /\ exams = [e \in ExamIds |-> [NewExam("p1") EXCEPT !.enrolled_count = 1]]
    /\ attempts = << NewAttempt("u1", "e1", "p1", COMPETITIVE, IN_PROGRESS, ExamStart),
                     NewAttempt("u2", NoExam, "p1", PRACTICE, IN_PROGRESS, ExamStart) >>
    /\ submissions = << >>
    /\ calls = [c \in Calls |-> IdleCall]
    /\ conclusion = IdleConclusion
    /\ scheduler = IdleScheduler

FirstDelivery(k) ==
    \E w \in Workers, job \in scheduler.scheduled :
        /\ job.func = k.func
        /\ job.exam = k.exam
        /\ scheduler.delivered[k] = 0
        /\ Deliver(w, job)

ScheduleNext ==
    \/ Tick
    \/ Restart
    \/ \E e \in ExamIds : ScheduleExamJobs(e)
    \/ \E w \in Workers, job \in scheduler.scheduled : Deliver(w, job)
    \/ \E w \in Workers : MarkSave(w)
    \/ \E job \in scheduler.scheduled : Retire(job)
    \/ \E u \in Users, id \in AttemptIds : EndTest(u, id)

SpecSchedule ==
    /\ ScheduleInit
    /\ [][ScheduleNext]_vars
    /\ WF_vars(Tick)
    /\ \A k \in JobKeys : WF_vars(FirstDelivery(k))
    /\ \A w \in Workers : WF_vars(MarkSave(w))

\* Whole submit_answer requests against two practice attempts under way:
\* u1's on paper p2, whose only entry is mandatory, and u2's on paper p1.
\* The selections include the empty one.
ChoicesOrNone == Choices \cup { {} }

MandatoryInit ==
    /\ now = ExamStart
    /\ paper_given \in BOOLEAN
    /\ exams = [e \in ExamIds |-> NewExam("p1")]
    /\ attempts = << NewAttempt("u1", NoExam, "p2", PRACTICE, IN_PROGRESS, ExamStart),
                     NewAttempt("u2", NoExam, "p1", PRACTICE, IN_PROGRESS, ExamStart) >>
    /\ submissions = << >>
    /\ calls = [c \in Calls |-> IdleCall]
    /\ conclusion = IdleConclusion
    /\ scheduler = IdleScheduler

MandatoryNext ==
    \/ Tick
    \/ \E u \in Users, id \in AttemptIds : EndTest(u, id)
    \/ \E u \in Users, id \in AttemptIds, q \in QuestionIds,
          opts \in ChoicesOrNone : SubmitAnswer(u, id, q, opts, TRUE)

SpecMandatory == MandatoryInit /\ [][MandatoryNext]_vars

\* Whole submit_answer requests, with an aggregate write that succeeds or
\* fails, on two enrolled attempts of the exam that are under way, and
\* conclude_exam run over what they leave.  The clock stands at the opening
\* of the exam.
ReconcileInit ==
    /\ now = ExamStart
    /\ paper_given \in BOOLEAN
    /\ exams = [e \in ExamIds |-> [NewExam("p1") EXCEPT !.enrolled_count = 2]]
    /\ attempts = << NewAttempt("u1", "e1", "p1", COMPETITIVE, IN_PROGRESS, ExamStart),
                     NewAttempt("u2", "e1", "p1", COMPETITIVE, IN_PROGRESS, ExamStart) >>
    /\ submissions = << >>
    /\ calls = [c \in Calls |-> IdleCall]
    /\ conclusion = IdleConclusion
    /\ scheduler = IdleScheduler

ReconcileNext ==
    \/ \E u \in Users, id \in AttemptIds, q \in QuestionIds, opts \in Choices,
          agg_ok \in BOOLEAN : SubmitAnswer(u, id, q, opts, agg_ok)
    \/ \E e \in ExamIds : ConcludeBegin(e)
    \/ ConcludeOverall
    \/ ConcludeSubject
    \/ ConcludeFinish

SpecReconcile == ReconcileInit /\ [][ReconcileNext]_vars

\* Enrolling, starting and ending attempts of the exam before, between and
\* after runs of conclude_exam, from the empty collections.
AfterNext ==
    \/ Tick
    \/ \E u \in Users, e \in ExamIds : Enroll(u, e)
    \/ \E u \in Users, e \in ExamIds : StartTest(u, exams[e].paper, e)
    \/ \E u \in Users, id \in AttemptIds : EndTest(u, id)
    \/ \E e \in ExamIds : ConcludeBegin(e)
    \/ ConcludeOverall
    \/ ConcludeSubject
    \/ ConcludeFinish

SpecAfter == Init /\ [][AfterNext]_vars

\* The selections of the overlapping requests: a right answer, part of a
\* right answer, and none.
OverlapChoices == { {"o1"}, {"o3"}, {} }

\* conclude_exam run step by step while submit_answer requests of the
\* attempts' owners go on frame by frame.  Two attempts of the exam are under
\* way; the clock stands at the opening of the exam.
OverlapInit ==
    /\ now = ExamStart
    /\ paper_given \in BOOLEAN
    /\ exams = [e \in ExamIds |-> [NewExam("p1") EXCEPT !.enrolled_count = 2]]
    /\ attempts = << NewAttempt("u1", "e1", "p1", COMPETITIVE, IN_PROGRESS, ExamStart),
                     NewAttempt("u2", "e1", "p1", COMPETITIVE, IN_PROGRESS, ExamStart) >>
    /\ submissions = << >>
    /\ calls = [c \in Calls |-> IdleCall]
    /\ conclusion = IdleConclusion
    /\ scheduler = IdleScheduler

OverlapNext ==
    \/ \E c \in Calls, id \in AttemptIds, q \in QuestionIds,
          opts \in OverlapChoices : SubmitLoad(c, attempts[id].user, id, q, opts)
    \/ \E c \in Calls : SubmitSave(c)
    \/ \E c \in Calls : SubmitAggregates(c)
    \/ \E e \in ExamIds : ConcludeBegin(e)
    \/ ConcludeOverall
    \/ ConcludeSubjectCount
    \/ ConcludeSubjectStream
    \/ ConcludeFinish

SpecOverlap == OverlapInit /\ [][OverlapNext]_vars

\* _score_submission on its own.  The inputs are drawn from small sets: a
\* single-correct question and multiple-correct questions with different
\* weights, the marks of the paper entry, whether it is mandatory, whether
\* the paper holds the question at all, and every selection of the
\* question's option codes and one code the question does not have.
ScoreQuestions ==
    { [code |-> "q1", type |-> SINGLE_CORRECT, subject_code |-> "maths",
       question_options |->
          << [code |-> "a", correct |-> TRUE, weight |-> 100],
             [code |-> "b", correct |-> FALSE, weight |-> 0],
             [code |-> "c", correct |-> FALSE, weight |-> 0] >>] }
    \cup
    { [code |-> "q2", type |-> MULTIPLE_CORRECT, subject_code |-> "science",
       question_options |->
          << [code |-> "a", correct |-> TRUE, weight |-> w[1]],
             [code |-> "b", correct |-> TRUE, weight |-> w[2]],
             [code |-> "c", correct |-> FALSE, weight |-> 0] >>] :
       w \in { << 50, 50 >>, << 30, 70 >>, << 33, 33 >> } }

ScoreMarks == { << 4, 1 >>, << 5, 2 >>, << 3, 0 >> }

ScoreChoices == SUBSET { "a", "b", "c", "zz" }

ScoreFrame(question, marks, mandatory, listed, chosen) ==
    [pc |-> "score",
     paper |-> [code |-> "p1",
                paper_questions |->
                    << [question |-> IF listed THEN question.code ELSE "q0",
                        mandatory |-> mandatory,
                        positive_score |-> marks[1],
                        negative_score |-> marks[2]] >>],
     question |-> question,
     options_chosen |-> chosen,
     result |-> << >>]

ScoreInit ==
    /\ now = 0
    /\ paper_given = FALSE
    /\ exams = [e \in ExamIds |-> NewExam("p1")]
    /\ attempts = << >>
    /\ submissions = << >>
    /\ \E question \in ScoreQuestions, marks \in ScoreMarks,
          mandatory \in BOOLEAN, listed \in BOOLEAN, chosen \in ScoreChoices :
          calls = << ScoreFrame(question, marks, mandatory, listed, chosen) >>
    /\ conclusion = IdleConclusion
    /\ scheduler = IdleScheduler

\* The call of lines 174-178 with its outcome: the pair returned or the
\* HTTPException raised.
ScoreCall ==
    /\ calls[1].pc = "score"
    /\ calls' = [calls EXCEPT ![1].pc = "done",
                              ![1].result = << ScoreSubmission(calls[1].paper,
                                                  calls[1].question,
                                                  calls[1].options_chosen) >>]
    /\ UNCHANGED << now, paper_given, exams, attempts, submissions, conclusion,
                    scheduler >>

ScoreNext == ScoreCall

SpecScore == ScoreInit /\ [][ScoreNext]_vars

\* The simulation's _score_submission (src/app/simulation, lines 167-197):
\* the marking of one matching paper entry.  It has no rule for a mandatory
\* entry, and line 192 returns int(score) where the handler's function
\* returns the quotient itself.
SimScoreEntry(pq, question, chosen) ==
    LET by_code == { question.question_options[i].code :
                        i \in DOMAIN question.question_options }
        correct_set == { question.question_options[i].code :
                            i \in { j \in DOMAIN question.question_options :
                                      question.question_options[j].correct } }
        penalty == [code |-> 200, detail |-> "scored",
                    score100 |-> -(pq.negative_score) * 100,
                    max_score |-> pq.positive_score]
    IN  IF \E c \in chosen : c \notin by_code THEN penalty
        ELSE IF chosen \ correct_set # {} THEN penalty
        ELSE IF question.type = SINGLE_CORRECT
        THEN [code |-> 200, detail |-> "scored",
              score100 |-> (IF chosen = {} THEN 0 ELSE pq.positive_score * 100),
              max_score |-> pq.positive_score]
        ELSE IF question.type = MULTIPLE_CORRECT
        THEN [code |-> 200, detail |-> "scored",
              score100 |-> 100 * IntOf(SumWeights(question.question_options,
                                                  chosen, 1) * pq.positive_score),
              max_score |-> pq.positive_score]
        ELSE [code |-> 200, detail |-> "scored", score100 |-> 0,
              max_score |-> pq.positive_score]

\* The simulation's _score_submission: the first paper entry bound to the
\* question decides; for a question with no entry it returns (0, 0).
SimScoreSubmission(paper, question, chosen) ==
    LET hits == { i \in DOMAIN paper.paper_questions :
                    paper.paper_questions[i].question = question.code }
    IN  IF hits = {}
        THEN [code |-> 200, detail |-> "scored", score100 |-> 0, max_score |-> 0]
        ELSE SimScoreEntry(paper.paper_questions[CHOOSE i \in hits :
                                                   \A j \in hits : i <= j],
                           question, chosen)

\* The two _score_submission functions called with the same arguments: the
\* first frame is the handler's call, the second the simulation's.
MirrorInit ==
    /\ now = 0
    /\ paper_given = FALSE
    /\ exams = [e \in ExamIds |-> NewExam("p1")]
    /\ attempts = << >>
    /\ submissions = << >>
    /\ \E question \in ScoreQuestions, marks \in ScoreMarks,
          mandatory \in BOOLEAN, listed \in BOOLEAN, chosen \in ScoreChoices :
          calls = << ScoreFrame(question, marks, mandatory, listed, chosen),
                     ScoreFrame(question, marks, mandatory, listed, chosen) >>
    /\ conclusion = IdleConclusion
    /\ scheduler = IdleScheduler

\* The simulation's call (src/app/simulation, line 248) with its outcome.
SimScoreCall ==
    /\ calls[2].pc = "score"
    /\ calls' = [calls EXCEPT ![2].pc = "done",
                              ![2].result = << SimScoreSubmission(calls[2].paper,
                                                  calls[2].question,
                                                  calls[2].options_chosen) >>]
    /\ UNCHANGED << now, paper_given, exams, attempts, submissions, conclusion,
                    scheduler >>

MirrorNext == ScoreCall \/ SimScoreCall

SpecMirror == MirrorInit /\ [][MirrorNext]_vars

\* ------------------------------------------------- properties of submissions
SameTriple(a, b) ==
    /\ a.test_attempt = b.test_attempt
    /\ a.question = b.question
    /\ a.user = b.user

SubmissionsFor(id, q, u) ==
    { i \in DOMAIN submissions :
        /\ submissions[i].test_attempt = id
        /\ submissions[i].question = q
        /\ submissions[i].user = u }

\* A call that came back: it passed the checks of lines 161-178 and its
\* selection scored no penalty.
Returned(c) ==
    /\ calls[c].pc = "done"
    /\ calls[c].detail \in {"ok", "already_submitted"}
    /\ calls[c].score100 >= 0

SameTarget(c1, c2) ==
    /\ calls[c1].attempt = calls[c2].attempt
    /\ calls[c1].user = calls[c2].user

\* C1: under every interleaving of submit_answer calls the submissions
\* collection holds at most one Submission per (test_attempt, question, user),
\* and a Submission that is stored is never removed or changed by a later
\* step.
C1_OneSubmissionPerTriple ==
    /\ [](\A i, j \in DOMAIN submissions :
            SameTriple(submissions[i], submissions[j]) => i = j)
    /\ [][\A i \in DOMAIN submissions :
            /\ i \in DOMAIN submissions'
            /\ submissions'[i] = submissions[i]]_vars

\* A second call for a triple that is stored came back 409 although its own
\* document would validate.
C1_Witness ==
    \E c \in Calls :
        /\ Returned(c)
        /\ calls[c].code = 409
        /\ paper_given
        /\ SubmissionsFor(calls[c].attempt, calls[c].question,
                          calls[c].user) # {}

\* C2: of two calls for the same (attempt, question) that both pass the
\* checks with a valid selection, exactly one answers 200 and its Submission
\* is the one stored, the other answers 409.
C2_ExactlyOneSucceeds ==
    \A c1, c2 \in Calls :
        (/\ c1 # c2
         /\ Returned(c1)
         /\ Returned(c2)
         /\ SameTarget(c1, c2)
         /\ calls[c1].question = calls[c2].question)
        => /\ { calls[c1].code, calls[c2].code } = { 200, 409 }
           /\ Cardinality(SubmissionsFor(calls[c1].attempt, calls[c1].question,
                                         calls[c1].user)) = 1

RECURSIVE SumScores(_, _, _)
\* The sum of the stored scores of attempt id, over the subjects in subjs.
SumScores(id, subjs, i) ==
    IF i > Len(submissions) THEN 0
    ELSE (IF /\ submissions[i].test_attempt = id
             /\ submissions[i].subject_code \in subjs
          THEN submissions[i].score ELSE 0)
         + SumScores(id, subjs, i + 1)

Subjects == { Question(q).subject_code : q \in QuestionIds }

\* Every call on attempt id has returned, and every one that answered 200
\* wrote its aggregates.
AllWritten(id) ==
    \A c \in Calls :
        (calls[c].pc # "idle" /\ calls[c].attempt = id)
        => /\ calls[c].pc = "done"
           /\ calls[c].code = 200 => calls[c].aggregated = "written"

BucketTotal(a, subj) ==
    LET k == BucketIndex(a.subject_scores, subj)
    IN  IF k = 0 THEN 0 ELSE a.subject_scores[k].total_score

C8_OnlyLegalTransitions ==
    [][\A i \in DOMAIN attempts :
          /\ attempts'[i].status # attempts[i].status
             => \/ /\ attempts[i].status = NOT_STARTED
                   /\ attempts'[i].status = IN_PROGRESS
                \/ /\ attempts[i].status = IN_PROGRESS
                   /\ attempts'[i].status = COMPLETED
          /\ attempts'[i].started_on # attempts[i].started_on
             => attempts[i].status = NOT_STARTED]_vars

\* The window of the contract: the exam's interval for an attempt of an
\* exam, duration_minutes from started_on for a practice attempt, both ends
\* included.
InsideWindow(a) ==
    IF a.type = COMPETITIVE
    THEN /\ a.exam \in ExamIds
         /\ exams[a.exam].start_time <= now
         /\ now <= exams[a.exam].end_time
    ELSE /\ a.started_on # None
         /\ now - a.started_on <= Paper(a.paper).duration_minutes

Aggregates(a) == << a.total_score, a.max_total_score, a.subject_scores >>

MayWrite(u, id) ==
    /\ id \in AttemptIds
    /\ attempts[id].user = u
    /\ attempts[id].status = IN_PROGRESS
    /\ InsideWindow(attempts[id])

\* C9: a step stores a Submission or changes the aggregates of an attempt
\* only for the owner of an attempt that is in progress and inside its
\* window; a submit_answer in any other case does not answer 200.
C9_SubmitOnlyWhenAllowed ==
    /\ [][\A id \in AttemptIds :
            /\ Aggregates(attempts'[id]) # Aggregates(attempts[id])
               => MayWrite(attempts[id].user, id)
            /\ \A i \in DOMAIN submissions' \ DOMAIN submissions :
                 submissions'[i].test_attempt = id
                 => MayWrite(submissions'[i].user, id)]_vars
    /\ [](\A u \in Users, id \in 0 .. Len(attempts), q \in QuestionIds,
            opts \in Choices :
            ~MayWrite(u, id) => SubmitResponse(u, id, q, opts).code # 200)

\* A Submission is stored and the total of its attempt has grown.
C9_Witness ==
    \E i \in DOMAIN submissions :
        /\ submissions[i].score > 0
        /\ attempts[submissions[i].test_attempt].total_score > 0

CorrectAnswer(q) ==
    { Question(q).question_options[i].code : i \in
        { j \in DOMAIN Question(q).question_options :
            Question(q).question_options[j].correct } }

\* C10: on a practice attempt in progress, started at T with duration D, a
\* first correct answer at t is answered 403 when t - T > D and 200 when
\* t - T <= D.
C10_PracticeBoundary ==
    \A id \in AttemptIds, q \in QuestionIds :
        LET a == attempts[id]
            r == SubmitResponse(a.user, id, q, CorrectAnswer(q))
        IN  (/\ a.type = PRACTICE
             /\ a.status = IN_PROGRESS
             /\ a.started_on # None
             /\ SubmissionsFor(id, q, a.user) = {})
            => IF now - a.started_on > Paper(a.paper).duration_minutes
               THEN r.code = 403
               ELSE r.code = 200

\* C19: on an attempt that is in progress and inside its window, with no
\* earlier submission for the question, a submit whose selection holds an
\* unknown option code or an option not marked correct is answered 200 (it
\* stores a Submission with the penalty as its score).  Stated for the
\* handler with the paper reference given, so that the missing reference is
\* not what refuses it.
C19_WrongSelectionAccepted ==
    \A id \in AttemptIds, q \in QuestionIds, opts \in Choices :
        (/\ paper_given
         /\ MayWrite(attempts[id].user, id)
         /\ SubmissionsFor(id, q, attempts[id].user) = {}
         /\ ~(opts \subseteq CorrectAnswer(q)))
        => SubmitResponse(attempts[id].user, id, q, opts).code = 200

\* The paper entries bound to question q in the paper of attempt id.
EntriesFor(id, q) ==
    { i \in DOMAIN Paper(attempts[id].paper).paper_questions :
        Paper(attempts[id].paper).paper_questions[i].question = q }

MandatoryUnanswered(id, q, opts) ==
    /\ opts = {}
    /\ \E i \in EntriesFor(id, q) :
          Paper(attempts[id].paper).paper_questions[i].mandatory

QuestionNotInPaper(id, q) == EntriesFor(id, q) = {}

\* C20: when the selection is empty on a mandatory question or the question
\* is not in the attempt's paper, submit_answer on an in-progress, in-window
\* attempt answers with that error (409 for the unanswered mandatory
\* question, 404 for the question outside the paper); no step stores a
\* Submission for such a request, and the aggregates of an attempt change
\* only together with a Submission stored for a request that was scored.
C20_ScoringFailureRecordsNothing ==
    /\ [](\A id \in AttemptIds, q \in QuestionIds, opts \in ChoicesOrNone :
            MayWrite(attempts[id].user, id)
            => LET r == SubmitResponse(attempts[id].user, id, q, opts)
               IN  /\ MandatoryUnanswered(id, q, opts)
                      => r.code = 409 /\ r.detail = "mandatory"
                   /\ QuestionNotInPaper(id, q)
                      => r.code = 404 /\ r.detail = "question_not_in_paper")
    /\ [][\A id \in AttemptIds :
            LET new == { i \in DOMAIN submissions' \ DOMAIN submissions :
                           submissions'[i].test_attempt = id }
            IN  /\ \A i \in new :
                      /\ ~MandatoryUnanswered(id, submissions'[i].question,
                                              submissions'[i].options_chosen)
                      /\ ~QuestionNotInPaper(id, submissions'[i].question)
                /\ Aggregates(attempts'[id]) # Aggregates(attempts[id])
                   => new # {}]_vars

\* u1's attempt is on the paper with the mandatory entry, in progress and
\* inside its window: the empty selection for q1 is refused as unanswered
\* and q2 as outside the paper, while u2 has had an answer stored.
C20_Witness ==
    /\ MayWrite("u1", 1)
    /\ MandatoryUnanswered(1, "q1", {})
    /\ QuestionNotInPaper(1, "q2")
    /\ SubmitResponse("u1", 1, "q1", {}).detail = "mandatory"
    /\ SubmitResponse("u1", 1, "q2", { "o3" }).code = 404
    /\ SubmissionsFor(1, "q1", "u1") = {}
    /\ Len(submissions) > 0

\* -------------------------------------------- properties of the conclusion
Active(e) ==
    { i \in DOMAIN attempts :
        /\ attempts[i].exam = e
        /\ attempts[i].status \in { IN_PROGRESS, COMPLETED } }

Holders(e, subj) ==
    { i \in Active(e) :
        \E k \in DOMAIN attempts[i].subject_scores :
            attempts[i].subject_scores[k].subject_code = subj }

\* 100 * (n - r) / n rounded to four places, in ten-thousandths.
PercentileRule(n, r) ==
    LET whole == (1000000 * (n - r)) \div n
        rest == (1000000 * (n - r)) % n
    IN  IF 2 * rest >= n THEN whole + 1 ELSE whole

Concluded == conclusion.pc = "done"

\* C4: when conclude_exam has returned, the rank of every active attempt of
\* the exam is one more than the number of active attempts of the exam with
\* a strictly greater total_score.
C4_RankIsOnePlusAhead ==
    Concluded =>
        \A i \in Active(conclusion.exam) :
            attempts[i].rank =
                1 + Cardinality({ j \in Active(conclusion.exam) :
                        attempts[j].total_score > attempts[i].total_score })

\* Two attempts tie for rank 1 and a third follows at rank 3.
C4_Witness ==
    /\ Concluded
    /\ \E i, j, k \in Active(conclusion.exam) :
          /\ i # j
          /\ attempts[i].rank = 1
          /\ attempts[j].rank = 1
          /\ attempts[k].rank = 3

\* C5: when conclude_exam has returned, the percentile of every active
\* attempt is 100 * (N - r) / N rounded to four places, r its rank and N the
\* number of active attempts.
C5_OverallPercentile ==
    Concluded =>
        \A i \in Active(conclusion.exam) :
            attempts[i].percentile =
                PercentileRule(Cardinality(Active(conclusion.exam)),
                               attempts[i].rank)

SameBuckets(a, b) ==
    /\ Len(a.subject_scores) = Len(b.subject_scores)
    /\ \A k \in DOMAIN a.subject_scores :
          /\ a.subject_scores[k].subject_code = b.subject_scores[k].subject_code
          /\ a.subject_scores[k].total_score = b.subject_scores[k].total_score

\* C6: when conclude_exam has returned, every bucket of a subject held by an
\* active attempt has rank one more than the number of holders of that
\* subject with a greater bucket total, and percentile 100 * (Ns - r) / Ns
\* over the Ns holders; no step adds, removes or re-totals a bucket, and the
\* pass for a subject changes no attempt without a bucket of it.
C6_SubjectRanks ==
    /\ [](Concluded =>
            \A subj \in Subjects :
                \A i \in Holders(conclusion.exam, subj) :
                    \A k \in DOMAIN attempts[i].subject_scores :
                        attempts[i].subject_scores[k].subject_code = subj
                        => LET rank == 1 + Cardinality(
                                   { j \in Holders(conclusion.exam, subj) :
                                       BucketTotal(attempts[j], subj) >
                                       BucketTotal(attempts[i], subj) })
                           IN  /\ attempts[i].subject_scores[k].rank = rank
                               /\ attempts[i].subject_scores[k].percentile =
                                    PercentileRule(
                                      Cardinality(Holders(conclusion.exam, subj)),
                                      rank))
    /\ [][/\ \A i \in DOMAIN attempts : SameBuckets(attempts[i], attempts'[i])
          /\ (conclusion.pc = "subjects" /\ conclusion'.pc = "subjects")
             => \A i \in DOMAIN attempts :
                  i \notin Holders(conclusion.exam,
                        Paper(exams[conclusion.exam].paper)
                            .subject_max_scores[conclusion.subject].subject_code)
                  => attempts'[i] = attempts[i]]_vars

\* One attempt is second of its subject while another active attempt, ranked
\* overall, holds no bucket of that subject.
C6_Witness ==
    /\ Concluded
    /\ \E i, j \in Active(conclusion.exam) :
          /\ i \in Holders(conclusion.exam, "maths")
          /\ attempts[i].subject_scores[
                BucketIndex(attempts[i].subject_scores, "maths")].rank = 2
          /\ j \notin Holders(conclusion.exam, "maths")
          /\ j \in Holders(conclusion.exam, "science")
          /\ attempts[j].rank # NoRank

ExamAggregates(doc) ==
    << doc.attempted_count, doc.highest_score, doc.lowest_score, doc.max_score >>

\* C7: a second run of conclude_exam over the same attempts changes no rank,
\* no percentile and none of the exam's attempted_count, highest_score,
\* lowest_score and max_score.
C7_SecondRunChangesNothing ==
    [][conclusion'.runs >= 2
       => /\ attempts' = attempts
          /\ \A e \in ExamIds :
                ExamAggregates(exams'[e]) = ExamAggregates(exams[e])]_vars

\* The second run has returned over attempts that hold different ranks.
C7_Witness ==
    /\ Concluded
    /\ conclusion.runs = 2
    /\ exams[conclusion.exam].attempted_count >= 2
    /\ \E i \in Active(conclusion.exam) : attempts[i].rank >= 2

\* ------------------------------------------------- properties of enrolment
AttemptsOf(u, e) ==
    { i \in DOMAIN attempts : attempts[i].user = u /\ attempts[i].exam = e }

\* C11: under every interleaving of the steps of enroll requests, two by the
\* same user for the same exam included, the attempts collection holds at
\* most one attempt per (user, exam).
C11_OneAttemptPerUserExam ==
    \A u \in Users, e \in ExamIds : Cardinality(AttemptsOf(u, e)) <= 1

\* Two requests of one user for one exam both passed the lookup; one stored
\* its attempt and the insert of the other was refused.
C11_Witness ==
    \E c1, c2 \in Calls :
        /\ c1 # c2
        /\ calls[c1].pc = "done"
        /\ calls[c1].code = 500
        /\ calls[c2].pc \in { "enroll_count", "done" }
        /\ calls[c2].user = calls[c1].user
        /\ calls[c2].exam = calls[c1].exam
        /\ AttemptsOf(calls[c1].user, calls[c1].exam) # {}

\* C12: enroll by a user who has an attempt for the exam answers 409; no
\* step adds an attempt for a (user, exam) that has one, a step that adds an
\* attempt changes no stored attempt, and enrolled_count changes only in a
\* step that adds an attempt for the exam.
C12_SecondEnrollRefused ==
    /\ [](\A u \in Users, e \in ExamIds :
            AttemptsOf(u, e) # {} => EnrollCode(u, e) = 409)
    /\ [][\A e \in ExamIds :
            LET grew == /\ Len(attempts') > Len(attempts)
                        /\ attempts'[Len(attempts')].exam = e
            IN  /\ grew => /\ AttemptsOf(attempts'[Len(attempts')].user, e) = {}
                           /\ \A i \in DOMAIN attempts :
                                attempts'[i] = attempts[i]
                /\ exams'[e].enrolled_count # exams[e].enrolled_count
                   => grew]_vars

\* A user is enrolled, counted once, and a further enroll would be refused.
C12_Witness ==
    \E u \in Users, e \in ExamIds :
        /\ AttemptsOf(u, e) # {}
        /\ exams[e].enrolled_count = 1
        /\ EnrollCode(u, e) = 409

\* -------------------------------------------- properties of the callbacks
Handled(func, e) == scheduler.handled[[func |-> func, exam |-> e]]

ConcludeJobs(e) ==
    { i \in DOMAIN scheduler.queue :
        /\ scheduler.queue[i].func = "conclude_exam"
        /\ scheduler.queue[i].exam = e }

\* C13: once the start callback and the end callback of an exam have each
\* run at least once, at or after their instants, the exam reaches status
\* completed with conclude_exam enqueued for it.
C13_DeliveredExamCompletes ==
    \A e \in ExamIds :
        (Handled("mark_exam_started", e) >= 1 /\ Handled("mark_exam_ended", e) >= 1)
        ~> (exams[e].status = EXAM_COMPLETED /\ ConcludeJobs(e) # {})

\* C14: however often and however interleaved mark_exam_ended is delivered
\* for an exam, conclude_exam is enqueued for it at most once.
C14_ConcludeEnqueuedOnce ==
    \A e \in ExamIds : Cardinality(ConcludeJobs(e)) <= 1

\* C15: an attempt that is in progress when its window has closed is
\* eventually completed with ended_on stamped.
C15_TimeDrivenEnd ==
    \A id \in { 1, 2 } :
        (/\ id \in DOMAIN attempts
         /\ attempts[id].status = IN_PROGRESS
         /\ ~InsideWindow(attempts[id]))
        ~> (attempts[id].status = COMPLETED /\ attempts[id].ended_on # None)

Scheduled(func, e) ==
    \E job \in scheduler.scheduled : job.func = func /\ job.exam = e

\* C16: the step in which the process comes up leaves the start callback of
\* every upcoming exam and the end callback of every upcoming or ongoing
\* exam scheduled.
C16_RestartReschedules ==
    [][(~scheduler.started /\ scheduler'.started)
       => \A e \in ExamIds :
            /\ exams'[e].status = UPCOMING
               => Scheduled("mark_exam_started", e)'
            /\ exams'[e].status \in { UPCOMING, ONGOING }
               => Scheduled("mark_exam_ended", e)']_vars

\* ------------------------------------------------- properties of the marks
Scored == calls[1].pc = "done"

ScoredEntry == calls[1].paper.paper_questions[1]

ListedQuestion == ScoredEntry.question = calls[1].question.code

OptionCodes(question, correct) ==
    { question.question_options[i].code :
        i \in { j \in DOMAIN question.question_options :
                  question.question_options[j].correct = correct } }

Outcome(score100, max_score) ==
    /\ calls[1].result[1].code = 200
    /\ calls[1].result[1].score100 = score100
    /\ calls[1].result[1].max_score = max_score

\* C17: for a single-correct question listed in the paper with marks
\* (positive_score, negative_score), _score_submission returns
\* (positive_score, positive_score) for the correct option alone,
\* (-negative_score, positive_score) for a selection with an incorrect
\* option, (0, positive_score) for the empty selection when the entry is not
\* mandatory, and raises when it is empty and the entry is mandatory.
C17_SingleCorrectMarks ==
    (Scored /\ ListedQuestion /\ calls[1].question.type = SINGLE_CORRECT)
    => LET chosen == calls[1].options_chosen
           pos == ScoredEntry.positive_score
           neg == ScoredEntry.negative_score
       IN  /\ chosen = OptionCodes(calls[1].question, TRUE)
              => Outcome(pos * 100, pos)
           /\ chosen \cap OptionCodes(calls[1].question, FALSE) # {}
              => Outcome(-neg * 100, pos)
           /\ (chosen = {} /\ ~ScoredEntry.mandatory) => Outcome(0, pos)
           /\ (chosen = {} /\ ScoredEntry.mandatory)
              => calls[1].result[1].code # 200

\* A single-correct question was answered with the correct and an incorrect
\* option and scored the penalty.
C17_Witness ==
    /\ Scored
    /\ ListedQuestion
    /\ calls[1].question.type = SINGLE_CORRECT
    /\ calls[1].options_chosen = { "a", "b" }
    /\ calls[1].result[1].score100 = -200

RECURSIVE ChosenWeight(_, _, _)
ChosenWeight(question, chosen, i) ==
    IF i > Len(question.question_options) THEN 0
    ELSE (IF question.question_options[i].code \in chosen
          THEN question.question_options[i].weight ELSE 0)
         + ChosenWeight(question, chosen, i + 1)

\* C18: for a multiple-correct question listed in the paper whose correct
\* weights sum to 100, the full correct set scores positive_score, a strict
\* subset of the correct options scores positive_score times the chosen
\* weights over 100 (scores are kept in hundredths), a selection with an
\* incorrect option beside correct ones scores -negative_score, and
\* max_score is positive_score in the three cases.
C18_MultipleCorrectMarks ==
    (/\ Scored
     /\ ListedQuestion
     /\ calls[1].question.type = MULTIPLE_CORRECT
     /\ ChosenWeight(calls[1].question,
                     OptionCodes(calls[1].question, TRUE), 1) = 100)
    => LET chosen == calls[1].options_chosen
           correct == OptionCodes(calls[1].question, TRUE)
           pos == ScoredEntry.positive_score
           neg == ScoredEntry.negative_score
       IN  /\ chosen = correct => Outcome(pos * 100, pos)
           /\ (/\ chosen \subseteq correct
               /\ chosen # correct
               /\ chosen # {} \/ ~ScoredEntry.mandatory)
              => Outcome(pos * ChosenWeight(calls[1].question, chosen, 1), pos)
           /\ (/\ chosen \cap OptionCodes(calls[1].question, FALSE) # {}
               /\ chosen \cap correct # {})
              => Outcome(-neg * 100, pos)

\* One of two correct options was chosen and scored a fraction of a mark.
C18_Witness ==
    /\ Scored
    /\ ListedQuestion
    /\ calls[1].question.type = MULTIPLE_CORRECT
    /\ calls[1].options_chosen = { "a" }
    /\ calls[1].result[1].score100 = 150

\* ------------------------------------------ properties of the aggregates
SubmissionsOf(id) ==
    { i \in DOMAIN submissions : submissions[i].test_attempt = id }

\* The paper's declared maximum for a subject, 0 for a subject it does not
\* list.
DeclaredSubjectMax(paper, subj) ==
    IF \E i \in DOMAIN paper.subject_max_scores :
          paper.subject_max_scores[i].subject_code = subj
    THEN (CHOOSE ps \in { paper.subject_max_scores[i] :
                            i \in DOMAIN paper.subject_max_scores } :
             ps.subject_code = subj).max_score
    ELSE 0

C22_AggregateFailureKeepsSubmission ==
    /\ [](\A c \in Calls :
            calls[c].aggregated = "failed"
            => /\ calls[c].code = 200
               /\ SubmissionsFor(calls[c].attempt, calls[c].question,
                                 calls[c].user) # {})
    /\ [][\A i \in DOMAIN submissions :
            i \in DOMAIN submissions' /\ submissions'[i] = submissions[i]]_vars

\* A request stored its Submission, failed to write the aggregates and has
\* returned: the attempt's total does not hold the score.
C22_Witness ==
    \E c \in Calls :
        /\ calls[c].pc = "done"
        /\ calls[c].aggregated = "failed"
        /\ SumScores(calls[c].attempt, Subjects, 1) > 0
        /\ attempts[calls[c].attempt].total_score = 0

C24_OnlyActiveAttemptsTouched ==
    /\ [](conclusion.pc \in { "overall", "subjects" }
          => conclusion.total_attempts = Cardinality(Active(conclusion.exam)))
    /\ [](Concluded
          => exams[conclusion.exam].attempted_count
                = Cardinality(Active(conclusion.exam)))
    /\ [][\A i \in DOMAIN attempts :
            (\/ attempts[i].exam # conclusion'.exam
             \/ attempts[i].status \notin { IN_PROGRESS, COMPLETED })
            => attempts'[i] = attempts[i]]_vars

\* The exam was concluded over a ranked attempt beside a cancelled attempt
\* of the exam and an attempt of another exam, which have no rank.
C24_Witness ==
    /\ Concluded
    /\ \E i, j, k \in DOMAIN attempts :
          /\ attempts[i].exam = conclusion.exam
          /\ attempts[i].status = CANCELLED
          /\ attempts[i].rank = NoRank
          /\ attempts[j].exam = OtherExam
          /\ attempts[j].subject_scores[1].rank = NoRank
          /\ attempts[k].rank = 1
          /\ exams[conclusion.exam].attempted_count = 1

\* C25: when conclude_exam has returned for an exam with N > 0 active
\* attempts, the exam's attempted_count is N, its highest_score the greatest
\* and its lowest_score the least total_score of the active attempts, and
\* concluded_on is set.
C25_ExamExtremes ==
    (Concluded /\ Active(conclusion.exam) # {})
    => LET e == conclusion.exam
           totals == { attempts[i].total_score : i \in Active(e) }
       IN  /\ exams[e].attempted_count = Cardinality(Active(e))
           /\ exams[e].highest_score \in totals
           /\ \A t \in totals : t <= exams[e].highest_score
           /\ exams[e].lowest_score \in totals
           /\ \A t \in totals : exams[e].lowest_score <= t
           /\ exams[e].highest_score >= exams[e].lowest_score
           /\ exams[e].concluded_on # None

\* An exam concluded over three active attempts with different totals.
C25_Witness ==
    /\ Concluded
    /\ exams[conclusion.exam].attempted_count = 3
    /\ exams[conclusion.exam].highest_score = 6
    /\ exams[conclusion.exam].lowest_score = 0

RECURSIVE PositiveTotal(_, _)
\* The sum of positive_score over the first n question entries of a paper.
PositiveTotal(paper, n) ==
    IF n = 0 THEN 0
    ELSE paper.paper_questions[n].positive_score + PositiveTotal(paper, n - 1)

\* C26: when a run of conclude_exam has returned, with or without active
\* attempts, the exam's max_score is the sum of positive_score over the
\* question entries of its paper, whatever the paper's cached max_score is.
C26_MaxScoreRecomputed ==
    Concluded
    => LET paper == Paper(exams[conclusion.exam].paper)
       IN  exams[conclusion.exam].max_score
              = PositiveTotal(paper, Len(paper.paper_questions))

NoActiveAttempt(e) ==
    \A i \in DOMAIN attempts :
        attempts[i].exam # e \/ attempts[i].status \notin { IN_PROGRESS, COMPLETED }

\* C27: for an exam with no active attempt, conclude_exam ends in its first
\* step, leaves attempted_count, highest_score and lowest_score at 0 with
\* concluded_on set, and changes no attempt document.
C27_EmptyExamConcluded ==
    /\ []((Concluded /\ NoActiveAttempt(conclusion.exam))
          => /\ exams[conclusion.exam].attempted_count = 0
             /\ exams[conclusion.exam].highest_score = 0
             /\ exams[conclusion.exam].lowest_score = 0
             /\ exams[conclusion.exam].concluded_on # None)
    /\ [][\A e \in ExamIds :
            (NoActiveAttempt(e) /\ conclusion'.exam = e)
            => /\ attempts' = attempts
               /\ conclusion'.runs # conclusion.runs => conclusion'.pc = "done"]_vars

\* An exam whose attempts were never started or were cancelled has been
\* concluded.
C27_Witness ==
    /\ Concluded
    /\ NoActiveAttempt(conclusion.exam)
    /\ \E i, j \in DOMAIN attempts :
          /\ attempts[i].exam = conclusion.exam
          /\ attempts[i].status = NOT_STARTED
          /\ attempts[j].exam = conclusion.exam
          /\ attempts[j].status = CANCELLED
    /\ exams[conclusion.exam].concluded_on = now

BucketsOf(i, subj) ==
    { k \in DOMAIN attempts[i].subject_scores :
        attempts[i].subject_scores[k].subject_code = subj }

\* The subject of the pass just run: "-" after the overall pass.
PassJustRun ==
    IF conclusion.subject = 1 THEN "-"
    ELSE Paper(exams[conclusion.exam].paper)
            .subject_max_scores[conclusion.subject - 1].subject_code

RECURSIVE SumTo(_, _)
\* The sum of the first n elements of a sequence of numbers.
SumTo(seq, n) == IF n = 0 THEN 0 ELSE seq[n] + SumTo(seq, n - 1)

\* C28: in conclude_exam no bulk write carries more than batch_size updates
\* or none; at the end of the overall pass and of each subject pass the
\* buffer of pending updates is empty, and the bulk writes of the pass have
\* carried one update for each active attempt (overall) or for each of its
\* buckets of the subject, and no other.
C28_BoundedBatches ==
    /\ \A b \in DOMAIN conclusion.writes :
          /\ conclusion.writes[b] >= 1
          /\ conclusion.writes[b] <= batch_size
    /\ conclusion.pc \in { "subjects", "done" } => conclusion.operations = << >>
    /\ conclusion.pc = "subjects"
       => /\ \A i \in DOMAIN attempts :
               conclusion.written[i]
                 = IF i \notin Active(conclusion.exam) THEN 0
                   ELSE IF PassJustRun = "-" THEN 1
                   ELSE Cardinality(BucketsOf(i, PassJustRun))
          /\ SumTo(conclusion.writes, Len(conclusion.writes))
                = SumTo(conclusion.written, Len(conclusion.written))

\* The overall pass over three attempts has written a full batch and then
\* the one update left.
C28_Witness ==
    /\ conclusion.pc = "subjects"
    /\ conclusion.subject = 1
    /\ conclusion.writes = << batch_size, 1 >>
    /\ conclusion.written = << 1, 1, 1 >>

\* --------------------------------------------- properties of start and end
OutsideExamWindow(e) == now < exams[e].start_time \/ now > exams[e].end_time

\* C29: a start for an exam is answered 409 and changes no attempt when the
\* clock is outside [start_time, end_time] or the paper named is not the
\* exam's; at now = start_time and at now = end_time the start of an
\* enrolled user with the exam's paper is answered 200, and the step sets
\* the attempt in progress with started_on = now.
C29_StartWindowAndPaper ==
    /\ [](\A u \in Users, p \in Papers, e \in ExamIds :
            /\ (OutsideExamWindow(e) \/ p # exams[e].paper)
               => StartCode(u, p, e) = 409
            /\ (/\ now \in { exams[e].start_time, exams[e].end_time }
                /\ p = exams[e].paper
                /\ AttemptsOf(u, e) # {})
               => StartCode(u, p, e) = 200)
    /\ [][\A u \in Users, p \in Papers, e \in ExamIds :
            StartTest(u, p, e)
            => IF OutsideExamWindow(e) \/ p # exams[e].paper
               THEN attempts' = attempts
               ELSE \A i \in AttemptsOf(u, e) :
                      /\ attempts'[i].status = IN_PROGRESS
                      /\ attempts'[i].started_on = now]_vars

\* An enrolled attempt was started at the instant the exam's window closes.
C29_Witness ==
    \E i \in AttemptIds :
        /\ attempts[i].exam \in ExamIds
        /\ attempts[i].status = IN_PROGRESS
        /\ attempts[i].started_on = exams[attempts[i].exam].end_time
        /\ now = exams[attempts[i].exam].end_time

\* C30: an end_test naming another user's attempt is answered 404 and
\* changes no attempt; an end_test by the owner of an attempt in progress
\* sets it completed with ended_on = now.
C30_EndOnlyOwnAttempt ==
    /\ [](\A u \in Users, id \in AttemptIds :
            attempts[id].user # u => EndCode(u, id) = 404)
    /\ [][\A u \in Users, id \in AttemptIds :
            EndTest(u, id)
            => IF attempts[id].user # u
               THEN attempts' = attempts
               ELSE attempts[id].status = IN_PROGRESS
                    => /\ attempts'[id].status = COMPLETED
                       /\ attempts'[id].ended_on = now]_vars

\* One user's attempt has been ended while the other user's is in progress.
C30_Witness ==
    \E i, j \in AttemptIds :
        /\ attempts[i].user # attempts[j].user
        /\ attempts[i].status = COMPLETED
        /\ attempts[i].ended_on # None
        /\ attempts[j].status = IN_PROGRESS
        /\ attempts[j].ended_on = None

\* C31: a start without an exam is answered 200 for any user and any stored
\* paper, whatever attempts the user already has (it stores a fresh practice
\* attempt in progress with started_on = now).
C31_PracticeStartAlwaysSucceeds ==
    \A u \in Users, p \in PaperIds : StartCode(u, p, NoExam) = 200

\* Attempt b holds the rank and percentile of attempt a, its own and, position
\* by position, those of the buckets a holds.
RankFieldsKept(a, b) ==
    /\ b.rank = a.rank
    /\ b.percentile = a.percentile
    /\ \A k \in DOMAIN a.subject_scores :
          /\ k \in DOMAIN b.subject_scores
          /\ b.subject_scores[k].rank = a.subject_scores[k].rank
          /\ b.subject_scores[k].percentile = a.subject_scores[k].percentile

C33_StatusMovesForward ==
    [][ \A e \in ExamIds :
          exams'[e].status # exams[e].status =>
             \/ /\ exams[e].status = UPCOMING
                /\ exams'[e].status = ONGOING
                /\ exams[e].start_time <= now
             \/ /\ exams[e].status = ONGOING
                /\ exams'[e].status = EXAM_COMPLETED
                /\ exams[e].end_time <= now ]_vars

\* C34: called with the same paper, question and selection, the simulation's
\* _score_submission and the handler's either both fail or return the same
\* score and the same maximum.
C34_SimulationMirrorsApi ==
    (calls[1].pc = "done" /\ calls[2].pc = "done") =>
        LET api == calls[1].result[1]
            sim == calls[2].result[1]
        IN  /\ (api.code = 200) <=> (sim.code = 200)
            /\ api.code = 200 =>
                  /\ api.score100 = sim.score100
                  /\ api.max_score = sim.max_score

\* C35: a submit_answer request is answered 409 "Already submitted for this
\* question" only when, at its insert, the collection holds a Submission of
\* the same attempt, question and user.
C35_DuplicateAnswerMeansDuplicate ==
    [][ \A c \in Calls :
          (/\ calls[c].pc = "save"
           /\ calls'[c].pc = "done"
           /\ calls'[c].detail = "already_submitted")
          => ~SubmissionIndexAllows(FrameDoc(c)) ]_vars

C37_CountWithinAttempts ==
    \A e \in ExamIds :
        exams[e].enrolled_count
            <= Cardinality({ i \in DOMAIN attempts : attempts[i].exam = e })

\* Two overlapping enroll requests both stored their attempt and returned,
\* and the counter shows fewer than the two attempts: a counter write was
\* lost or failed.
C37_Witness ==
    \E c1, c2 \in Calls, e \in ExamIds :
        /\ c1 # c2
        /\ calls[c1].pc = "done" /\ calls[c1].code = 200 /\ calls[c1].exam = e
        /\ calls[c2].pc = "done" /\ calls[c2].code = 200 /\ calls[c2].exam = e
        /\ Cardinality({ i \in DOMAIN attempts : attempts[i].exam = e }) = 2
        /\ exams[e].enrolled_count \in { 0, 1 }

\* A stored percentile, in ten-thousandths, is unset or between 0 and 100.
PercentileInRange(p) == p = None \/ (0 <= p /\ p <= 100 * 10000)

RanksAgree(e) ==
    \A a, b \in { i \in AttemptIds : /\ attempts[i].exam = e
                                     /\ attempts[i].status \in { IN_PROGRESS, COMPLETED } } :
        /\ attempts[a].total_score > attempts[b].total_score
              => attempts[a].rank < attempts[b].rank
        /\ attempts[a].total_score = attempts[b].total_score
              => attempts[a].rank = attempts[b].rank

C40_ConcludedAttemptsRanked ==
    \A e \in ExamIds :
        (exams[e].concluded_on # None /\ conclusion.pc \in { "idle", "done" }) =>
           \A i \in AttemptIds :
              (attempts[i].exam = e /\ attempts[i].status \in { IN_PROGRESS, COMPLETED })
                 => (attempts[i].rank # NoRank /\ attempts[i].percentile # None)

=============================================================================
